---- MODULE Spec2Model ----
(***************************************************************************)
(* Health analyzer edge functions: the five request handlers (dental,      *)
(* skin, posture, nutrition, stool), the vision call adapter analyzeImage, *)
(* and the persistence adapter storeAnalysisResults / findNearbyProviders. *)
(*                                                                         *)
(* Strings are sequences of one-character strings, so that substring       *)
(* search, lower-casing and concatenation are computed, not assumed.       *)
(* JavaScript values are tagged records: [t |-> "undefined"],              *)
(* [t |-> "null"], [t |-> "string", v |-> chars], [t |-> "boolean", ...],  *)
(* [t |-> "object", v |-> record].                                         *)
(***************************************************************************)
EXTENDS Integers, Sequences, FiniteSets, TLC

(***************************************************************************)
(* Bounds                                                                  *)
(***************************************************************************)
\* number of requests in flight at once in the concurrent specification
NumClients == 2

\* the texts given to the parser and the extractors on their own: lines of a
\* free text, items of a written section, the numbers written in a score
\* phrase, the concerns handed to a recommendation heuristic
MaxLines == 4
MaxItems == 2
MaxNumber == 12
MaxConcerns == 3
\* the sentences of a text given to a list extractor or to the hydration
\* heuristic
MaxSentences == 2

Clients == 1..NumClients

(***************************************************************************)
(* String primitives of the JavaScript runtime                             *)
(***************************************************************************)
UpperToLower ==
  [A |-> "a", B |-> "b", C |-> "c", D |-> "d", E |-> "e", F |-> "f", G |-> "g",
   H |-> "h", I |-> "i", J |-> "j", K |-> "k", L |-> "l", M |-> "m", N |-> "n",
   O |-> "o", P |-> "p", Q |-> "q", R |-> "r", S |-> "s", T |-> "t", U |-> "u",
   V |-> "v", W |-> "w", X |-> "x", Y |-> "y", Z |-> "z"]

\* String.prototype.toLowerCase
toLowerCase(s) ==
  [i \in 1..Len(s) |-> IF s[i] \in DOMAIN UpperToLower THEN UpperToLower[s[i]] ELSE s[i]]

\* String.prototype.includes
includes(s, p) ==
  \E i \in 0..(Len(s) - Len(p)) : SubSeq(s, i + 1, i + Len(p)) = p

(***************************************************************************)
(* JavaScript values                                                       *)
(***************************************************************************)
Undefined == [t |-> "undefined"]
Null == [t |-> "null"]
Str(s) == [t |-> "string", v |-> s]
Bool(b) == [t |-> "boolean", v |-> b]
Obj(o) == [t |-> "object", v |-> o]
Arr(a) == [t |-> "array", v |-> a]
\* an id generated by the store (uuid_generate_v4)
Uuid(n) == [t |-> "uuid", v |-> n]

\* ToBoolean, as applied by `if (x)`, `!x` and `x || y`
Truthy(x) ==
  CASE x.t = "undefined" -> FALSE
    [] x.t = "null" -> FALSE
    [] x.t = "string" -> x.v # <<>>
    [] x.t = "boolean" -> x.v
    [] x.t \in {"object", "array", "uuid"} -> TRUE

\* a completed call: a returned value or a thrown Error with its message
Return(v) == [kind |-> "return", value |-> v, message |-> <<>>]
Throw(m) == [kind |-> "throw", value |-> Undefined, message |-> m]

\* `const x = value; rest` is written The({rest : x \in {value}}): the value
\* is computed once, then named
The(set) == CHOOSE x \in set : TRUE

(***************************************************************************)
(* Regular expressions of the JavaScript runtime (RegExp, backtracking     *)
(* matcher of ECMA-262 22.2.2), as far as the source's patterns use them   *)
(***************************************************************************)
\* the code units that occur in the texts
Digits == {"0", "1", "2", "3", "4", "5", "6", "7", "8", "9"}
Letters == DOMAIN UpperToLower \cup {UpperToLower[c] : c \in DOMAIN UpperToLower}
\* \s
WhiteSpace == {" ", "\t", "\n", "\r", "\f"}
\* the characters `.` does not match
LineTerminators == {"\n", "\r"}

\* pattern nodes, one per syntactic form
\* a pattern character
Chr(c) == [t |-> "chr", c |-> c]
\* a character class [...], \s, \d
Cls(S) == [t |-> "cls", S |-> S]
\* .
Dot == [t |-> "dot"]
\* a run of pattern characters
Lit(s) == [t |-> "lit", s |-> s]
\* ^ (no m flag: the start of the input)
Bol == [t |-> "bol"]
\* $ (no m flag: the end of the input)
Eol == [t |-> "eol"]
\* a lookbehind (?<=x) on a one-character x
Behind(x) == [t |-> "behind", x |-> x]
\* a sequence of terms
Cat(xs) == [t |-> "cat", xs |-> xs]
\* a disjunction a|b|..., alternatives tried from the left
Alt(xs) == [t |-> "alt", xs |-> xs]
\* a quantified atom x{min,max}, greedy or lazy; max = -1 is no upper limit
Rep(x, min, max, greedy) == [t |-> "rep", x |-> x, min |-> min, max |-> max, greedy |-> greedy]
\* a capturing group ( ), numbered from 1; GrpEnd closes it
Grp(n, x) == [t |-> "grp", n |-> n, x |-> x]
GrpEnd(n, from) == [t |-> "grpend", n |-> n, from |-> from]

\* the usual quantifiers
Star(x) == Rep(x, 0, -1, TRUE)
Plus(x) == Rep(x, 1, -1, TRUE)
Opt(x) == Rep(x, 0, 1, TRUE)
LazyStar(x) == Rep(x, 0, -1, FALSE)
LazyPlus(x) == Rep(x, 1, -1, FALSE)
\* an identity escape: outside Unicode mode `\Z` is the pattern character Z
IdentityEscape(c) == Chr(c)

\* Canonicalize under the i flag
Canonicalize(c, ignoreCase) ==
  IF ignoreCase /\ c \in DOMAIN UpperToLower THEN UpperToLower[c] ELSE c

\* one character against a one-character node
CharMatches(node, c, ignoreCase) ==
  CASE node.t = "chr" -> Canonicalize(node.c, ignoreCase) = Canonicalize(c, ignoreCase)
    [] node.t = "cls" -> \E d \in node.S : Canonicalize(d, ignoreCase) = Canonicalize(c, ignoreCase)
    [] node.t = "dot" -> c \notin LineTerminators

\* a run of pattern characters against the input at position i
LitMatches(lit, s, i, ignoreCase) ==
  /\ i + Len(lit) - 1 <= Len(s)
  /\ \A j \in 1..Len(lit) :
       Canonicalize(lit[j], ignoreCase) = Canonicalize(s[i + j - 1], ignoreCase)

\* the terms of a pattern, as pushed on the continuation
Terms(x) == IF x.t = "cat" THEN x.xs ELSE <<x>>

\* The backtracking matcher as a machine.  A configuration holds the
\* continuation k (the nodes still to match), the position i of the next
\* character, the captures so far, the start of the attempt, and the stack
\* bt of the choice points left behind, each the continuation, position and
\* captures to resume with; the first way that succeeds, in the order of
\* the backtracking matcher, is the result.  The patterns have no
\* backreference and no quantified atom that can match the empty string,
\* so a (continuation, position) pair met for the second time within one
\* attempt has already been explored without success: `visited` holds the
\* pairs met at the head of a quantifier and such a pair is not explored
\* twice.
MatcherStart(pattern, groups, start) ==
  [k |-> Terms(pattern), i |-> start,
   caps |-> [n \in 1..groups |-> [set |-> FALSE, from |-> 0, to |-> 0]],
   start |-> start, bt |-> <<>>, visited |-> {}, state |-> "run"]

\* the current way has failed: resume at the latest choice point; without
\* one the attempt at this start has failed and RegExpBuiltinExec advances
\* lastIndex by one, up to the length of the input
Backtrack(s, pattern, groups, c) ==
  IF c.bt # <<>>
  THEN LET top == c.bt[Len(c.bt)]
       IN [c EXCEPT !.k = top.k, !.i = top.i, !.caps = top.caps,
                    !.bt = SubSeq(c.bt, 1, Len(c.bt) - 1)]
  ELSE IF c.start <= Len(s) THEN MatcherStart(pattern, groups, c.start + 1)
  ELSE [c EXCEPT !.state = "fail"]

ChoicePoint(c, k) == [k |-> k, i |-> c.i, caps |-> c.caps]

\* one step of the matcher
MatcherStep(s, pattern, ignoreCase, groups, c) ==
  IF c.k = <<>> THEN [c EXCEPT !.state = "match"]
  ELSE LET node == Head(c.k)
           rest == Tail(c.k)
           again == Terms(node.x)
                    \o <<Rep(node.x, IF node.min > 0 THEN node.min - 1 ELSE 0,
                             IF node.max > 0 THEN node.max - 1 ELSE node.max,
                             node.greedy)>> \o rest
       IN CASE node.t \in {"chr", "cls", "dot"} ->
                 IF c.i <= Len(s) /\ CharMatches(node, s[c.i], ignoreCase)
                 THEN [c EXCEPT !.k = rest, !.i = c.i + 1]
                 ELSE Backtrack(s, pattern, groups, c)
            [] node.t = "lit" ->
                 IF LitMatches(node.s, s, c.i, ignoreCase)
                 THEN [c EXCEPT !.k = rest, !.i = c.i + Len(node.s)]
                 ELSE Backtrack(s, pattern, groups, c)
            [] node.t = "bol" ->
                 IF c.i = 1 THEN [c EXCEPT !.k = rest]
                 ELSE Backtrack(s, pattern, groups, c)
            [] node.t = "eol" ->
                 IF c.i = Len(s) + 1 THEN [c EXCEPT !.k = rest]
                 ELSE Backtrack(s, pattern, groups, c)
            [] node.t = "behind" ->
                 IF c.i > 1 /\ CharMatches(node.x, s[c.i - 1], ignoreCase)
                 THEN [c EXCEPT !.k = rest]
                 ELSE Backtrack(s, pattern, groups, c)
            [] node.t = "cat" -> [c EXCEPT !.k = node.xs \o rest]
            [] node.t = "alt" ->
                 IF node.xs = <<>> THEN Backtrack(s, pattern, groups, c)
                 ELSE IF Len(node.xs) = 1 THEN [c EXCEPT !.k = Terms(node.xs[1]) \o rest]
                 ELSE [c EXCEPT !.k = Terms(node.xs[1]) \o rest,
                                !.bt = Append(@, ChoicePoint(c, <<Alt(Tail(node.xs))>> \o rest))]
            [] node.t = "grp" ->
                 [c EXCEPT !.k = Terms(node.x) \o <<GrpEnd(node.n, c.i)>> \o rest]
            [] node.t = "grpend" ->
                 [c EXCEPT !.k = rest,
                           !.caps[node.n] = [set |-> TRUE, from |-> node.from, to |-> c.i]]
            [] node.t = "rep" ->
                 IF <<c.k, c.i>> \in c.visited THEN Backtrack(s, pattern, groups, c)
                 ELSE LET seen == [c EXCEPT !.visited = @ \cup {<<c.k, c.i>>}]
                      IN IF node.min > 0 THEN [seen EXCEPT !.k = again]
                         ELSE IF node.max = 0 THEN [seen EXCEPT !.k = rest]
                         ELSE IF node.greedy
                         THEN [seen EXCEPT !.k = again, !.bt = Append(@, ChoicePoint(c, rest))]
                         ELSE [seen EXCEPT !.k = rest, !.bt = Append(@, ChoicePoint(c, again))]

\* at most n steps of the matcher, stopping when it has an answer
RECURSIVE MatcherRun(_, _, _, _, _, _)
MatcherRun(s, pattern, ignoreCase, groups, c, n) ==
  IF c.state # "run" THEN c
  ELSE IF n = 1 THEN MatcherStep(s, pattern, ignoreCase, groups, c)
  ELSE The({MatcherRun(s, pattern, ignoreCase, groups, d, n - (n \div 2)) :
            d \in {MatcherRun(s, pattern, ignoreCase, groups, c, n \div 2)}})

\* the matcher run until it has an answer
RECURSIVE MatcherRunToEnd(_, _, _, _, _, _)
MatcherRunToEnd(s, pattern, ignoreCase, groups, c, n) ==
  The({IF d.state # "run" THEN d
       ELSE MatcherRunToEnd(s, pattern, ignoreCase, groups, d, 2 * n) :
       d \in {MatcherRun(s, pattern, ignoreCase, groups, c, n)}})

\* RegExpBuiltinExec without the g flag (lastIndex = 0): the leftmost start
\* at which the pattern matches, with the end of the match and its captures
RegExpExec(s, pattern, ignoreCase, groups) ==
  The({The({[ok |-> d.state = "match", index |-> d.start, end |-> d.i, caps |-> d.caps] :
            d \in {MatcherRunToEnd(s, pattern, ignoreCase, groups, c, 64)}}) :
       c \in {MatcherStart(pattern, groups, 1)}})

\* the same search from the code unit after `from`: what the sticky matches
\* of String.prototype.split at from, from + 1, ... find first
RegExpExecFrom(s, pattern, ignoreCase, from) ==
  The({The({[ok |-> d.state = "match", index |-> d.start, end |-> d.i] :
            d \in {MatcherRunToEnd(s, pattern, ignoreCase, 0, c, 64)}}) :
       c \in {MatcherStart(pattern, 0, from)}})

\* String.prototype.match with a regular expression without the g flag:
\* null, or the match with its captures (undefined for a group that did not
\* take part)
match(s, pattern, ignoreCase, groups) ==
  The({IF ~r.ok THEN Null
       ELSE Arr([n \in 1..groups |->
                  IF r.caps[n].set
                  THEN Str(SubSeq(s, r.caps[n].from, r.caps[n].to - 1))
                  ELSE Undefined]) :
       r \in {RegExpExec(s, pattern, ignoreCase, groups)}})

\* String.prototype.replace with a regular expression without the g flag
\* and a replacement text without $ patterns
replace(s, pattern, ignoreCase, replacement) ==
  The({IF ~r.ok THEN s
       ELSE SubSeq(s, 1, r.index - 1) \o replacement \o SubSeq(s, r.end, Len(s)) :
       r \in {RegExpExec(s, pattern, ignoreCase, 0)}})

\* String.prototype.split with a one-character separator
RECURSIVE split(_, _)
split(s, sep) ==
  IF \A i \in 1..Len(s) : s[i] # sep THEN <<s>>
  ELSE The({The({<<SubSeq(s, 1, i - 1)>> \o split(rest, sep) :
                 rest \in {SubSeq(s, i + 1, Len(s))}}) :
            i \in {CHOOSE j \in 1..Len(s) : s[j] = sep /\ \A h \in 1..(j - 1) : s[h] # sep}})

\* String.prototype.split with a regular expression that has no capturing
\* group and matches no empty string: the pieces between the matches, from
\* position p on
RECURSIVE splitRegExpFrom(_, _, _, _)
splitRegExpFrom(s, pattern, ignoreCase, p) ==
  The({IF ~r.ok THEN <<SubSeq(s, p, Len(s))>>
       ELSE <<SubSeq(s, p, r.index - 1)>> \o splitRegExpFrom(s, pattern, ignoreCase, r.end) :
       r \in {RegExpExecFrom(s, pattern, ignoreCase, p)}})

splitRegExp(s, pattern, ignoreCase) == splitRegExpFrom(s, pattern, ignoreCase, 1)

\* variant: the list is returned as it was filled
newSet_all(list) == list

\* [...new Set(list)]: the first occurrence of each value, in order
newSet(list) ==
  LET first == {n \in 1..Len(list) : \A m \in 1..(n - 1) : list[m] # list[n]}
  IN [i \in 1..Cardinality(first) |->
        list[CHOOSE n \in first : Cardinality({m \in first : m < n}) = i - 1]]

\* String.prototype.trim
RECURSIVE trim(_)
trim(s) ==
  IF s = <<>> THEN s
  ELSE IF Head(s) \in WhiteSpace THEN The({trim(rest) : rest \in {Tail(s)}})
  ELSE IF s[Len(s)] \in WhiteSpace THEN The({trim(rest) : rest \in {SubSeq(s, 1, Len(s) - 1)}})
  ELSE s

(***************************************************************************)
(* _shared/utils.ts                                                        *)
(***************************************************************************)
\* validateRequiredFields(obj, requiredFields): the message for the first
\* field that is undefined, null or '', or null when there is none.
\* obj is the parsed body: reading a property of null throws a TypeError.
\* variant: the test for the empty string is left out
RECURSIVE validateRequiredFields_noEmpty(_, _)
validateRequiredFields_noEmpty(obj, requiredFields) ==
  IF requiredFields = <<>> THEN Return(Null)
  ELSE IF obj.t \in {"null", "undefined"}
       THEN Throw(<<"C","a","n","n","o","t"," ","r","e","a","d"," ","p","r","o","p","e","r","t","i","e","s"," ","o","f"," ","n","u","l","l">>)
  ELSE LET field == Head(requiredFields)
           val == IF obj.t = "object" /\ field.key \in DOMAIN obj.v
                  THEN obj.v[field.key] ELSE Undefined
       IN IF val = Undefined \/ val = Null
          THEN Return(Str(<<"M","i","s","s","i","n","g"," ","r","e","q","u","i","r","e","d"," ","f","i","e","l","d",":"," ">> \o field.name))
          ELSE validateRequiredFields_noEmpty(obj, Tail(requiredFields))

RECURSIVE validateRequiredFields(_, _)
validateRequiredFields(obj, requiredFields) ==
  IF requiredFields = <<>> THEN Return(Null)
  ELSE IF obj.t \in {"null", "undefined"}
       THEN Throw(<<"C","a","n","n","o","t"," ","r","e","a","d"," ","p","r","o","p","e","r","t","i","e","s"," ","o","f"," ","n","u","l","l">>)
  ELSE LET field == Head(requiredFields)
           val == IF obj.t = "object" /\ field.key \in DOMAIN obj.v
                  THEN obj.v[field.key] ELSE Undefined
       IN IF val = Undefined \/ val = Null \/ val = Str(<<>>)
          THEN Return(Str(<<"M","i","s","s","i","n","g"," ","r","e","q","u","i","r","e","d"," ","f","i","e","l","d",":"," ">> \o field.name))
          ELSE validateRequiredFields(obj, Tail(requiredFields))

\* errorResponse(message, status = 400)
errorResponse(message, status) ==
  [status |-> status, success |-> FALSE, error |-> message, data |-> Undefined]

\* successResponse(data, status = 200)
successResponse(data) ==
  [status |-> 200, success |-> TRUE, error |-> <<>>, data |-> data]

\* new Response('ok', { headers: corsHeaders }) of the CORS preflight
preflightResponse ==
  [status |-> 200, success |-> TRUE, error |-> <<>>, data |-> Undefined]

(***************************************************************************)
(* _shared/openai.ts : analyzeImage                                        *)
(***************************************************************************)
\* the refusal phrasings, lines 68-121
unableToAnalyzePatterns ==
  <<
    <<"u","n","a","b","l","e"," ","t","o"," ","a","n","a","l","y","z","e">>,
    <<"c","a","n","n","o","t"," ","a","n","a","l","y","z","e">>,
    <<"c","o","u","l","d"," ","n","o","t"," ","a","n","a","l","y","z","e">>,
    <<"n","o","t"," ","a","b","l","e"," ","t","o"," ","a","n","a","l","y","z","e">>,
    <<"c","a","n","'","t"," ","a","n","a","l","y","z","e">>,
    <<"c","a","n","n","o","t"," ","s","e","e">>,
    <<"c","a","n","n","o","t"," ","i","d","e","n","t","i","f","y">>,
    <<"c","a","n","n","o","t"," ","d","e","t","e","r","m","i","n","e">>,
    <<"u","n","a","b","l","e"," ","t","o"," ","i","d","e","n","t","i","f","y">>,
    <<"u","n","a","b","l","e"," ","t","o"," ","s","e","e">>,
    <<"u","n","a","b","l","e"," ","t","o"," ","a","s","s","e","s","s">>,
    <<"u","n","a","b","l","e"," ","t","o"," ","p","r","o","v","i","d","e">>,
    <<"c","a","n","n","o","t"," ","p","r","o","v","i","d","e">>,
    <<"c","a","n","n","o","t"," ","p","r","o","p","e","r","l","y"," ","a","n","a","l","y","z","e">>,
    <<"c","a","n","n","o","t"," ","m","a","k","e"," ","o","u","t">>,
    <<"u","n","c","l","e","a","r"," ","i","m","a","g","e">>,
    <<"i","m","a","g","e"," ","i","s"," ","u","n","c","l","e","a","r">>,
    <<"i","m","a","g","e"," ","i","s"," ","t","o","o"," ","b","l","u","r","r","y">>,
    <<"b","l","u","r","r","y"," ","i","m","a","g","e">>,
    <<"p","o","o","r"," ","q","u","a","l","i","t","y"," ","i","m","a","g","e">>,
    <<"l","o","w"," ","r","e","s","o","l","u","t","i","o","n">>,
    <<"i","n","s","u","f","f","i","c","i","e","n","t"," ","d","e","t","a","i","l">>,
    <<"n","o","t"," ","c","l","e","a","r"," ","e","n","o","u","g","h">>,
    <<"i","m","a","g","e"," ","q","u","a","l","i","t","y"," ","i","s">>,
    <<"d","i","f","f","i","c","u","l","t"," ","t","o"," ","s","e","e">>,
    <<"n","o"," ","v","i","s","i","b","l","e">>,
    <<"n","o","t"," ","v","i","s","i","b","l","e">>,
    <<"n","o","t","h","i","n","g"," ","v","i","s","i","b","l","e">>,
    <<"c","a","n","n","o","t"," ","v","i","s","u","a","l","i","z","e">>,
    <<"c","a","n","n","o","t"," ","o","b","s","e","r","v","e">>,
    <<"n","o","t"," ","s","h","o","w","i","n","g">>,
    <<"n","o","t"," ","p","r","e","s","e","n","t"," ","i","n">>,
    <<"i","n","s","u","f","f","i","c","i","e","n","t"," ","v","i","s","i","b","i","l","i","t","y">>,
    <<"i","n","a","p","p","r","o","p","r","i","a","t","e"," ","c","o","n","t","e","n","t">>,
    <<"i","n","a","p","p","r","o","p","r","i","a","t","e"," ","i","m","a","g","e">>,
    <<"o","f","f","e","n","s","i","v","e"," ","c","o","n","t","e","n","t">>,
    <<"v","i","o","l","a","t","e","s"," ","g","u","i","d","e","l","i","n","e","s">>,
    <<"n","o","t"," ","a","p","p","r","o","p","r","i","a","t","e">>,
    <<"b","e","t","t","e","r"," ","i","m","a","g","e"," ","i","s"," ","r","e","q","u","i","r","e","d">>,
    <<"c","l","e","a","r","e","r"," ","i","m","a","g","e">>,
    <<"h","i","g","h","e","r"," ","q","u","a","l","i","t","y"," ","i","m","a","g","e">>,
    <<"n","e","e","d"," ","a"," ","b","e","t","t","e","r">>,
    <<"p","l","e","a","s","e"," ","p","r","o","v","i","d","e"," ","a"," ","c","l","e","a","r","e","r">>
  >>


\* the messages of the errors raised inside analyzeImage
MsgNoApiKey == <<"O","p","e","n","A","I"," ","A","P","I"," ","k","e","y"," ","n","o","t"," ","c","o","n","f","i","g","u","r","e","d">>
MsgNoChoices == <<"N","o"," ","a","n","a","l","y","s","i","s"," ","r","e","s","u","l","t","s"," ","r","e","t","u","r","n","e","d"," ","f","r","o","m"," ","O","p","e","n","A","I">>
MsgFetchFailed == <<"e","r","r","o","r"," ","s","e","n","d","i","n","g"," ","r","e","q","u","e","s","t">>
MsgBadJson == <<"U","n","e","x","p","e","c","t","e","d"," ","e","n","d"," ","o","f"," ","J","S","O","N"," ","i","n","p","u","t">>
MsgNoToLowerCase == <<"C","a","n","n","o","t"," ","r","e","a","d"," ","p","r","o","p","e","r","t","i","e","s"," ","o","f"," ","u","n","d","e","f","i","n","e","d"," ","(","r","e","a","d","i","n","g"," ","'","t","o","L","o","w","e","r","C","a","s","e","'",")">>
MsgApiError(status, errorData) == <<"O","p","e","n","A","I"," ","A","P","I"," ","e","r","r","o","r",":"," ">> \o status \o <<" ">> \o errorData

\* `if (!apiKey) throw`, lines 15-19
analyzeImageKey(key) ==
  IF ~Truthy(key) THEN Throw(MsgNoApiKey) ELSE Return(key)

\* the settled fetch, lines 24-56: a rejected fetch and a non-ok response throw
analyzeImageFetch(res) ==
  IF res.kind = "reject" THEN Throw(MsgFetchFailed)
  ELSE IF ~res.ok THEN Throw(MsgApiError(res.status, res.text))
  ELSE Return(Bool(TRUE))

\* variant: the refusal phrasings are looked for in the content as written
analyzeImageResult_caseSensitive(decoded) ==
  IF decoded.kind = "reject" THEN Throw(MsgBadJson)
  ELSE LET choices == decoded.choices IN
    IF ~Truthy(choices) \/ Len(choices.v) = 0
    THEN Return(Obj([text |-> Str(MsgNoChoices), success |-> FALSE]))
    ELSE LET content == choices.v[1].content IN
      IF content.t # "string" THEN Throw(MsgNoToLowerCase)
      ELSE IF \E i \in 1..Len(unableToAnalyzePatterns) :
                 includes(content.v, unableToAnalyzePatterns[i])
           THEN Return(Obj([text |-> content, success |-> FALSE]))
           ELSE Return(Obj([text |-> content, success |-> TRUE]))

\* lines 58-129 on the settled response.json(): the choice list, the content
\* of the first choice and the scan of the refusal patterns
analyzeImageResult(decoded) ==
  IF decoded.kind = "reject" THEN Throw(MsgBadJson)
  ELSE LET choices == decoded.choices IN
    IF ~Truthy(choices) \/ Len(choices.v) = 0
    THEN Return(Obj([text |-> Str(MsgNoChoices), success |-> FALSE]))
    ELSE LET content == choices.v[1].content IN
      IF content.t # "string" THEN Throw(MsgNoToLowerCase)
      ELSE IF \E i \in 1..Len(unableToAnalyzePatterns) :
                 includes(toLowerCase(content.v), unableToAnalyzePatterns[i])
           THEN Return(Obj([text |-> content, success |-> FALSE]))
           ELSE Return(Obj([text |-> content, success |-> TRUE]))

\* variant: the catch clause logs and rethrows
analyzeImageCatch_rethrow(outcome) == outcome

\* the catch clause, lines 130-133: every error thrown in the try block is
\* logged and turned into {text: message, success: false}
analyzeImageCatch(outcome) ==
  IF outcome.kind = "throw"
  THEN Return(Obj([text |-> Str(outcome.message), success |-> FALSE]))
  ELSE outcome

(***************************************************************************)
(* The five handlers: what differs between them                            *)
(***************************************************************************)
Handlers == {"dental-check", "skin-tracker", "posture-check", "nutri-snap", "poop-health"}

\* first argument of storeAnalysisResults
analysisType(h) ==
  CASE h = "dental-check" -> "dental"
    [] h = "skin-tracker" -> "skin"
    [] h = "posture-check" -> "posture"
    [] h = "nutri-snap" -> "nutrition"
    [] h = "poop-health" -> "stool"

\* third argument of storeAnalysisResults
specificTableName(h) ==
  CASE h = "dental-check" -> "dental_analyses"
    [] h = "skin-tracker" -> "skin_analyses"
    [] h = "posture-check" -> "posture_analyses"
    [] h = "nutri-snap" -> "nutrition_analyses"
    [] h = "poop-health" -> "stool_analyses"

\* first argument of findNearbyProviders
specialty(h) ==
  CASE h = "dental-check" -> "dentist"
    [] h = "skin-tracker" -> "dermatologist"
    [] h = "posture-check" -> "physiotherapist"
    [] h = "nutri-snap" -> "nutritionist"
    [] h = "poop-health" -> "gastroenterologist"

\* the message prefix of the handler's outer catch clause (status 500)
catchPrefix(h) ==
  CASE h = "dental-check" -> <<"E","r","r","o","r"," ","a","n","a","l","y","z","i","n","g"," ","d","e","n","t","a","l"," ","i","m","a","g","e",":"," ">>
    [] h = "skin-tracker" -> <<"E","r","r","o","r"," ","a","n","a","l","y","z","i","n","g"," ","s","k","i","n"," ","i","m","a","g","e",":"," ">>
    [] h = "posture-check" -> <<"E","r","r","o","r"," ","a","n","a","l","y","z","i","n","g"," ","p","o","s","t","u","r","e"," ","i","m","a","g","e",":"," ">>
    [] h = "nutri-snap" -> <<"E","r","r","o","r"," ","a","n","a","l","y","z","i","n","g"," ","f","o","o","d"," ","i","m","a","g","e",":"," ">>
    [] h = "poop-health" -> <<"E","r","r","o","r"," ","a","n","a","l","y","z","i","n","g"," ","s","t","o","o","l"," ","i","m","a","g","e",":"," ">>

\* the message prefix of `if (!analysisResult.success) return errorResponse(..., 400)`;
\* the skin handler has no such statement
unablePrefix(h) ==
  CASE h = "dental-check" -> <<"U","n","a","b","l","e"," ","t","o"," ","a","n","a","l","y","z","e"," ","t","h","e"," ","d","e","n","t","a","l"," ","i","m","a","g","e",":"," ">>
    [] h = "posture-check" -> <<"U","n","a","b","l","e"," ","t","o"," ","a","n","a","l","y","z","e"," ","t","h","e"," ","p","o","s","t","u","r","e"," ","i","m","a","g","e",":"," ">>
    [] h = "nutri-snap" -> <<"U","n","a","b","l","e"," ","t","o"," ","a","n","a","l","y","z","e"," ","t","h","e"," ","f","o","o","d"," ","i","m","a","g","e",":"," ">>
    [] h = "poop-health" -> <<"U","n","a","b","l","e"," ","t","o"," ","a","n","a","l","y","z","e"," ","t","h","e"," ","s","t","o","o","l"," ","i","m","a","g","e",":"," ">>

\* variant: no handler tests success, all pass the object on
checksSuccess_none(h) == FALSE

\* does the handler test analysisResult.success before parsing?  The skin
\* handler passes the whole {text, success} object on as the analysis text.
checksSuccess(h) == h # "skin-tracker"

\* the function name the handler's inner catch clause logs under
dbLogName(h) ==
  CASE h = "dental-check" -> "dental-check-db"
    [] h = "skin-tracker" -> "skin-tracker-db"
    [] h = "posture-check" -> "posture-check-db"
    [] h = "nutri-snap" -> "nutri-snap-db"
    [] h = "poop-health" -> "poop-health-db"

MsgMethodNotAllowed == <<"M","e","t","h","o","d"," ","n","o","t"," ","a","l","l","o","w","e","d">>
MsgNotAFunction == <<"a","n","a","l","y","s","i","s","T","e","x","t",".","t","o","L","o","w","e","r","C","a","s","e"," ","i","s"," ","n","o","t"," ","a"," ","f","u","n","c","t","i","o","n">>

\* variant: the section needs no header
concernsPattern_noHeader ==
  Cat(<<Grp(1, LazyPlus(Cat(<<Plus(Dot), Opt(Chr("\n"))>>))),
        Alt(<<Lit(<<"\n","\n">>),
              Cat(<<Chr("\n"), Plus(Cls(Letters)), Chr(":")>>),
              IdentityEscape("Z")>>)>>)

\* /(?:concerns|potential concerns|issues|potential issues):?.*?\n((?:.+\n?)+?)(?:\n\n|\n[A-Za-z]+:|\Z)/i
concernsPattern ==
  Cat(<<Alt(<<Lit(<<"c","o","n","c","e","r","n","s">>), Lit(<<"p","o","t","e","n","t","i","a","l"," ","c","o","n","c","e","r","n","s">>), Lit(<<"i","s","s","u","e","s">>),
              Lit(<<"p","o","t","e","n","t","i","a","l"," ","i","s","s","u","e","s">>)>>),
        Opt(Chr(":")), LazyStar(Dot), Chr("\n"),
        Grp(1, LazyPlus(Cat(<<Plus(Dot), Opt(Chr("\n"))>>))),
        Alt(<<Lit(<<"\n","\n">>),
              Cat(<<Chr("\n"), Plus(Cls(Letters)), Chr(":")>>),
              IdentityEscape("Z")>>)>>)

\* /(?:recommendations|suggested actions|advice|suggestions):?.*?\n((?:.+\n?)+?)(?:\n\n|\Z)/i
recommendationsPattern ==
  Cat(<<Alt(<<Lit(<<"r","e","c","o","m","m","e","n","d","a","t","i","o","n","s">>), Lit(<<"s","u","g","g","e","s","t","e","d"," ","a","c","t","i","o","n","s">>), Lit(<<"a","d","v","i","c","e">>),
              Lit(<<"s","u","g","g","e","s","t","i","o","n","s">>)>>),
        Opt(Chr(":")), LazyStar(Dot), Chr("\n"),
        Grp(1, LazyPlus(Cat(<<Plus(Dot), Opt(Chr("\n"))>>))),
        Alt(<<Lit(<<"\n","\n">>), IdentityEscape("Z")>>)>>)

\* /^-\s*/
bulletPattern == Cat(<<Bol, Chr("-"), Star(Cls(WhiteSpace))>>)

\* the section body to list items:
\* .split('\n').map(line => line.replace(/^-\s*/, '').trim()).filter(Boolean)
sectionLines(body) ==
  The({SelectSeq([n \in 1..Len(lines) |->
                    The({trim(line) :
                         line \in {replace(lines[n], bulletPattern, FALSE, <<>>)}})],
                 LAMBDA line : line # <<>>) :
       lines \in {split(body, "\n")}})

\* `const m = analysisText.match(pattern); if (m && m[1]) list = ...`
sectionOf(text, pattern) ==
  The({IF Truthy(m) /\ Truthy(m.v[1])
       THEN The({sectionLines(body) : body \in {m.v[1].v}})
       ELSE <<>> :
       m \in {match(text, pattern, TRUE, 1)}})

\* the catch clause of parseAnalysisResults is entered, and logs, exactly
\* when the argument is not a string: `analysisText.match` is then not a
\* function, and nothing else in the try block throws
parseAnalysisResultsCatch(analysisText) == analysisText.t # "string"

\* variant: the analysis is the text without its surrounding white space
parseAnalysisResults_trimmed(analysisText) ==
  [field \in {"analysis", "concerns", "recommendations"} |->
     CASE field = "analysis" ->
            IF parseAnalysisResultsCatch(analysisText) THEN analysisText
            ELSE Str(trim(analysisText.v))
       [] field = "concerns" ->
            IF parseAnalysisResultsCatch(analysisText) THEN <<>>
            ELSE sectionOf(analysisText.v, concernsPattern)
       [] field = "recommendations" ->
            IF parseAnalysisResultsCatch(analysisText) THEN <<>>
            ELSE sectionOf(analysisText.v, recommendationsPattern)]

\* parseAnalysisResults: the result object, field by field: the section
\* lists of a string, the fallback of the catch clause otherwise; `analysis`
\* is the argument unchanged on both paths
parseAnalysisResults(analysisText) ==
  [field \in {"analysis", "concerns", "recommendations"} |->
     CASE field = "analysis" -> analysisText
       [] field = "concerns" ->
            IF parseAnalysisResultsCatch(analysisText) THEN <<>>
            ELSE sectionOf(analysisText.v, concernsPattern)
       [] field = "recommendations" ->
            IF parseAnalysisResultsCatch(analysisText) THEN <<>>
            ELSE sectionOf(analysisText.v, recommendationsPattern)]

\* shouldRecommendDentist / shouldRecommendDermatologist / shouldRecommendDoctor
\* have no try block: their first statement, analysisText.toLowerCase(),
\* throws a TypeError on a value that is not a string.  The posture and
\* nutrition handlers call only extractors that catch their own errors.
recommendationCall(h, analysisText) ==
  IF h \in {"dental-check", "skin-tracker", "poop-health"} /\ analysisText.t # "string"
  THEN Throw(MsgNotAFunction)
  ELSE Return(Undefined)

(***************************************************************************)
(* The extractors of the handlers (part_006, nutri-snap/index.ts)          *)
(***************************************************************************)
\* a JavaScript number; NaN
Num(n) == [t |-> "number", v |-> n]
NaN == [t |-> "NaN"]

DigitChars == <<"0", "1", "2", "3", "4", "5", "6", "7", "8", "9">>
DigitValue(c) == (CHOOSE n \in 1..Len(DigitChars) : DigitChars[n] = c) - 1

\* the value of a run of decimal digits
RECURSIVE DecimalValue(_)
DecimalValue(digits) ==
  IF digits = <<>> THEN 0
  ELSE 10 * DecimalValue(SubSeq(digits, 1, Len(digits) - 1)) + DigitValue(digits[Len(digits)])

\* parseInt(string, 10) of a text without leading white space or sign (the
\* extractors pass what \d+ captured): the value of the leading digits, NaN
\* when there is none
parseInt(string) ==
  LET n == CHOOSE m \in 0..Len(string) :
             /\ \A j \in 1..m : string[j] \in Digits
             /\ m = Len(string) \/ string[m + 1] \notin Digits
  IN IF n = 0 THEN NaN ELSE Num(DecimalValue(SubSeq(string, 1, n)))

\* \s and \d
S == Cls(WhiteSpace)
D == Cls(Digits)

\* variant: the number is a single digit
oralHygieneScorePattern_oneDigit ==
  Cat(<<Alt(<<Lit(<<"o","r","a","l"," ","h","y","g","i","e","n","e">>), Lit(<<"h","y","g","i","e","n","e">>)>>),
        Plus(S), Lit(<<"s","c","o","r","e">>), Star(S),
        Opt(Alt(<<Lit(<<"i","s">>), Lit(<<"o","f">>), Chr(":"), Chr("=")>>)),
        Star(S), Grp(1, D),
        Alt(<<Cat(<<Star(S), Chr("/"), Star(S)>>),
              Cat(<<Plus(S), Lit(<<"o","u","t">>), Plus(S), Lit(<<"o","f">>), Plus(S)>>)>>),
        Alt(<<Lit(<<"1","0">>), Lit(<<"t","e","n">>)>>)>>)

\* /(?:oral hygiene|hygiene)\s+score\s*(?:is|of|:|=)?\s*(\d+)(?:\s*\/\s*|\s+out\s+of\s+)(?:10|ten)/i
oralHygieneScorePattern ==
  Cat(<<Alt(<<Lit(<<"o","r","a","l"," ","h","y","g","i","e","n","e">>), Lit(<<"h","y","g","i","e","n","e">>)>>),
        Plus(S), Lit(<<"s","c","o","r","e">>), Star(S),
        Opt(Alt(<<Lit(<<"i","s">>), Lit(<<"o","f">>), Chr(":"), Chr("=")>>)),
        Star(S), Grp(1, Plus(D)),
        Alt(<<Cat(<<Star(S), Chr("/"), Star(S)>>),
              Cat(<<Plus(S), Lit(<<"o","u","t">>), Plus(S), Lit(<<"o","f">>), Plus(S)>>)>>),
        Alt(<<Lit(<<"1","0">>), Lit(<<"t","e","n">>)>>)>>)

\* /(?:severity|condition)\s+(?:score|rating|level)\s*(?:is|of|:|=)?\s*(\d+)(?:\s*\/\s*|\s+out\s+of\s+)(?:10|ten)/i
severityScorePattern ==
  Cat(<<Alt(<<Lit(<<"s","e","v","e","r","i","t","y">>), Lit(<<"c","o","n","d","i","t","i","o","n">>)>>),
        Plus(S), Alt(<<Lit(<<"s","c","o","r","e">>), Lit(<<"r","a","t","i","n","g">>), Lit(<<"l","e","v","e","l">>)>>), Star(S),
        Opt(Alt(<<Lit(<<"i","s">>), Lit(<<"o","f">>), Chr(":"), Chr("=")>>)),
        Star(S), Grp(1, Plus(D)),
        Alt(<<Cat(<<Star(S), Chr("/"), Star(S)>>),
              Cat(<<Plus(S), Lit(<<"o","u","t">>), Plus(S), Lit(<<"o","f">>), Plus(S)>>)>>),
        Alt(<<Lit(<<"1","0">>), Lit(<<"t","e","n">>)>>)>>)

\* /(?:posture)\s+(?:score|rating)\s*(?:is|of|:|=)?\s*(\d+)(?:\s*\/\s*|\s+out\s+of\s+)(?:10|ten)/i
postureScorePattern ==
  Cat(<<Lit(<<"p","o","s","t","u","r","e">>),
        Plus(S), Alt(<<Lit(<<"s","c","o","r","e">>), Lit(<<"r","a","t","i","n","g">>)>>), Star(S),
        Opt(Alt(<<Lit(<<"i","s">>), Lit(<<"o","f">>), Chr(":"), Chr("=")>>)),
        Star(S), Grp(1, Plus(D)),
        Alt(<<Cat(<<Star(S), Chr("/"), Star(S)>>),
              Cat(<<Plus(S), Lit(<<"o","u","t">>), Plus(S), Lit(<<"o","f">>), Plus(S)>>)>>),
        Alt(<<Lit(<<"1","0">>), Lit(<<"t","e","n">>)>>)>>)

\* /(?:health|nutritional|nutrition)\s+(?:score|rating|value)\s*(?:is|of|:|=)?\s*(\d+)(?:\s*\/\s*|\s+out\s+of\s+)(?:10|ten)/i
healthScorePattern ==
  Cat(<<Alt(<<Lit(<<"h","e","a","l","t","h">>), Lit(<<"n","u","t","r","i","t","i","o","n","a","l">>), Lit(<<"n","u","t","r","i","t","i","o","n">>)>>),
        Plus(S), Alt(<<Lit(<<"s","c","o","r","e">>), Lit(<<"r","a","t","i","n","g">>), Lit(<<"v","a","l","u","e">>)>>), Star(S),
        Opt(Alt(<<Lit(<<"i","s">>), Lit(<<"o","f">>), Chr(":"), Chr("=")>>)),
        Star(S), Grp(1, Plus(D)),
        Alt(<<Cat(<<Star(S), Chr("/"), Star(S)>>),
              Cat(<<Plus(S), Lit(<<"o","u","t">>), Plus(S), Lit(<<"o","f">>), Plus(S)>>)>>),
        Alt(<<Lit(<<"1","0">>), Lit(<<"t","e","n">>)>>)>>)

\* (?:\s+is|\s*:\s*|\s+-\s*|\s+appears\s+to\s+be\s+), in both Bristol patterns
bristolVerb ==
  Alt(<<Cat(<<Plus(S), Lit(<<"i","s">>)>>),
        Cat(<<Star(S), Chr(":"), Star(S)>>),
        Cat(<<Plus(S), Chr("-"), Star(S)>>),
        Cat(<<Plus(S), Lit(<<"a","p","p","e","a","r","s">>), Plus(S), Lit(<<"t","o">>), Plus(S), Lit(<<"b","e">>), Plus(S)>>)>>)

\* /(?:bristol(?:\s+stool)?\s+(?:scale|type|category|class)(?:\s+classification)?|stool\s+type)(?:\s+is|\s*:\s*|\s+-\s*|\s+appears\s+to\s+be\s+)(?:type\s+)?(\d+)/i
bristolPattern ==
  Cat(<<Alt(<<Cat(<<Lit(<<"b","r","i","s","t","o","l">>), Opt(Cat(<<Plus(S), Lit(<<"s","t","o","o","l">>)>>)), Plus(S),
                    Alt(<<Lit(<<"s","c","a","l","e">>), Lit(<<"t","y","p","e">>), Lit(<<"c","a","t","e","g","o","r","y">>), Lit(<<"c","l","a","s","s">>)>>),
                    Opt(Cat(<<Plus(S), Lit(<<"c","l","a","s","s","i","f","i","c","a","t","i","o","n">>)>>))>>),
              Cat(<<Lit(<<"s","t","o","o","l">>), Plus(S), Lit(<<"t","y","p","e">>)>>)>>),
        bristolVerb,
        Opt(Cat(<<Lit(<<"t","y","p","e">>), Plus(S)>>)),
        Grp(1, Plus(D))>>)

\* /(?:type|category|class)(?:\s+is|\s*:\s*|\s+-\s*|\s+appears\s+to\s+be\s+)(?:type\s+)?(\d+)(?:\s+on\s+the\s+bristol)/i
bristolKeywordPattern ==
  Cat(<<Alt(<<Lit(<<"t","y","p","e">>), Lit(<<"c","a","t","e","g","o","r","y">>), Lit(<<"c","l","a","s","s">>)>>),
        bristolVerb,
        Opt(Cat(<<Lit(<<"t","y","p","e">>), Plus(S)>>)),
        Grp(1, Plus(D)),
        Cat(<<Plus(S), Lit(<<"o","n">>), Plus(S), Lit(<<"t","h","e">>), Plus(S), Lit(<<"b","r","i","s","t","o","l">>)>>)>>)

\* `const m = text.match(pattern); if (m && m[1]) { const n = parseInt(m[1], 10);
\* if (!isNaN(n) && n >= lo && n <= hi) return n; }`: the number, or undefined
\* where the code goes on to its next statement
\* variant: a number beyond the scale is brought back to its nearest end
boundedNumber_clamped(text, pattern, lo, hi) ==
  The({IF Truthy(m) /\ Truthy(m.v[1])
       THEN The({IF n.t # "number" THEN Undefined
                 ELSE IF n.v < lo THEN Num(lo)
                 ELSE IF n.v > hi THEN Num(hi)
                 ELSE n :
                 n \in {parseInt(m.v[1].v)}})
       ELSE Undefined :
       m \in {match(text, pattern, TRUE, 1)}})

boundedNumber(text, pattern, lo, hi) ==
  The({IF Truthy(m) /\ Truthy(m.v[1])
       THEN The({IF n.t = "number" /\ n.v >= lo /\ n.v <= hi THEN n ELSE Undefined :
                 n \in {parseInt(m.v[1].v)}})
       ELSE Undefined :
       m \in {match(text, pattern, TRUE, 1)}})

\* the four score extractors: `analysisText.match` throws on a value that is
\* not a string, the catch clause logs it and returns undefined
extractOralHygieneScore(analysisText) ==
  IF analysisText.t # "string" THEN Undefined
  ELSE boundedNumber(analysisText.v, oralHygieneScorePattern, 1, 10)

extractSeverityScore(analysisText) ==
  IF analysisText.t # "string" THEN Undefined
  ELSE boundedNumber(analysisText.v, severityScorePattern, 1, 10)

extractPostureScore(analysisText) ==
  IF analysisText.t # "string" THEN Undefined
  ELSE boundedNumber(analysisText.v, postureScorePattern, 1, 10)

extractHealthScore(analysisText) ==
  IF analysisText.t # "string" THEN Undefined
  ELSE boundedNumber(analysisText.v, healthScorePattern, 1, 10)

\* extractBristolType: the Bristol wording first, the alternative wording
\* when the first gave no type between 1 and 7
extractBristolType(analysisText) ==
  IF analysisText.t # "string" THEN Undefined
  ELSE The({IF type # Undefined THEN type
            ELSE boundedNumber(analysisText.v, bristolKeywordPattern, 1, 7) :
            type \in {boundedNumber(analysisText.v, bristolPattern, 1, 7)}})

dentistVisitKeywords ==
  <<<<"v","i","s","i","t"," ","a"," ","d","e","n","t","i","s","t">>, <<"d","e","n","t","a","l"," ","p","r","o","f","e","s","s","i","o","n","a","l">>, <<"d","e","n","t","i","s","t">>, <<"d","e","n","t","a","l"," ","c","h","e","c","k","u","p">>,
    <<"d","e","n","t","a","l"," ","v","i","s","i","t">>, <<"p","r","o","f","e","s","s","i","o","n","a","l"," ","c","l","e","a","n","i","n","g">>, <<"d","e","n","t","a","l"," ","c","o","n","s","u","l","t","a","t","i","o","n">>,
    <<"s","e","e"," ","a"," ","d","e","n","t","i","s","t">>, <<"d","e","n","t","a","l"," ","a","t","t","e","n","t","i","o","n">>, <<"d","e","n","t","a","l"," ","c","a","r","e"," ","n","e","e","d","e","d">>,
    <<"p","r","o","f","e","s","s","i","o","n","a","l"," ","e","x","a","m","i","n","a","t","i","o","n">>, <<"d","e","n","t","a","l"," ","t","r","e","a","t","m","e","n","t">>>>

doctorKeywords ==
  <<<<"c","o","n","s","u","l","t">>, <<"d","o","c","t","o","r">>, <<"p","h","y","s","i","c","i","a","n">>, <<"m","e","d","i","c","a","l">>, <<"h","e","a","l","t","h","c","a","r","e"," ","p","r","o","v","i","d","e","r">>,
    <<"p","r","o","f","e","s","s","i","o","n","a","l">>, <<"e","v","a","l","u","a","t","i","o","n">>, <<"c","l","i","n","i","c","a","l">>, <<"s","p","e","c","i","a","l","i","s","t">>, <<"g","a","s","t","r","o","e","n","t","e","r","o","l","o","g","i","s","t">>,
    <<"v","i","s","i","t">>, <<"a","p","p","o","i","n","t","m","e","n","t">>, <<"c","h","e","c","k","u","p">>, <<"c","h","e","c","k","-","u","p">>, <<"a","t","t","e","n","t","i","o","n">>>>

severeKeywords ==
  <<<<"b","l","o","o","d">>, <<"b","l","e","e","d","i","n","g">>, <<"b","l","a","c","k"," ","s","t","o","o","l">>, <<"t","a","r","r","y">>, <<"p","a","r","a","s","i","t","e">>,
    <<"s","e","v","e","r","e">>, <<"e","x","t","r","e","m","e">>, <<"p","e","r","s","i","s","t","e","n","t">>, <<"c","h","r","o","n","i","c">>, <<"c","o","n","t","i","n","u","o","u","s">>>>

\* variant: the keywords are looked for in the text as it is written
mentions_caseSensitive(text, keywords) ==
  \E n \in 1..Len(keywords) : includes(text, keywords[n])

\* `for (const keyword of keywords) if (text.toLowerCase().includes(keyword)) return true`
mentions(text, keywords) ==
  The({(\E n \in 1..Len(keywords) : includes(lower, keywords[n])) :
       lower \in {toLowerCase(text)}})

\* shouldRecommendDentist: no try block, so toLowerCase on a value that is
\* not a string throws; a keyword in the text, a keyword in a concern, or
\* three concerns and more
shouldRecommendDentist(analysisText, concerns) ==
  IF analysisText.t # "string" THEN Throw(MsgNotAFunction)
  ELSE Return(Bool(\/ mentions(analysisText.v, dentistVisitKeywords)
                   \/ \E c \in 1..Len(concerns) : mentions(concerns[c], dentistVisitKeywords)
                   \/ Len(concerns) >= 3))

\* shouldRecommendDoctor: a doctor keyword in the text or in a concern, a
\* severe keyword in the text, or a Bristol type at an end of the scale
shouldRecommendDoctor(analysisText, concerns) ==
  IF analysisText.t # "string" THEN Throw(MsgNotAFunction)
  ELSE Return(Bool(\/ mentions(analysisText.v, doctorKeywords)
                   \/ \E c \in 1..Len(concerns) : mentions(concerns[c], doctorKeywords)
                   \/ mentions(analysisText.v, severeKeywords)
                   \/ extractBristolType(analysisText) \in {Num(1), Num(7)}))

(***************************************************************************)
(* The list extractors (part_006, nutri-snap/index.ts)                     *)
(***************************************************************************)
\* /(?:<headers>):?.*?\n((?:.+\n?)+?)(?:\n\n|\n[A-Za-z]+:|\Z)/i, the pattern
\* of every list extractor but for its headers
sectionPattern(headers) ==
  Cat(<<Alt(headers),
        Opt(Chr(":")), LazyStar(Dot), Chr("\n"),
        Grp(1, LazyPlus(Cat(<<Plus(Dot), Opt(Chr("\n"))>>))),
        Alt(<<Lit(<<"\n","\n">>),
              Cat(<<Chr("\n"), Plus(Cls(Letters)), Chr(":")>>),
              IdentityEscape("Z")>>)>>)

\* part_006 line 304
dentalIssuesPattern ==
  sectionPattern(<<Lit(<<"d","e","n","t","a","l"," ","i","s","s","u","e","s">>), Lit(<<"p","r","o","b","l","e","m","s">>), Lit(<<"c","o","n","c","e","r","n","s">>)>>)
\* part_006 line 95
skinConditionsPattern ==
  sectionPattern(<<Lit(<<"s","k","i","n"," ","c","o","n","d","i","t","i","o","n","s">>), Lit(<<"s","k","i","n"," ","i","s","s","u","e","s">>), Lit(<<"p","o","t","e","n","t","i","a","l"," ","c","o","n","d","i","t","i","o","n","s">>)>>)
\* part_006 line 754
postureIssuesPattern ==
  sectionPattern(<<Lit(<<"p","o","s","t","u","r","e"," ","i","s","s","u","e","s">>), Lit(<<"p","r","o","b","l","e","m","s">>), Lit(<<"i","m","b","a","l","a","n","c","e","s">>),
                   Lit(<<"c","o","n","c","e","r","n","s">>)>>)
\* part_006 line 533
abnormalitiesPattern ==
  sectionPattern(<<Lit(<<"a","b","n","o","r","m","a","l","i","t","i","e","s">>),
                   Cat(<<Lit(<<"u","n","u","s","u","a","l">>), Plus(S), Lit(<<"f","e","a","t","u","r","e","s">>)>>),
                   Cat(<<Lit(<<"c","o","n","c","e","r","n","i","n","g">>), Plus(S), Lit(<<"f","e","a","t","u","r","e","s">>)>>),
                   Cat(<<Lit(<<"n","o","t","a","b","l","e">>), Plus(S), Lit(<<"f","i","n","d","i","n","g","s">>)>>),
                   Lit(<<"i","s","s","u","e","s">>), Lit(<<"p","r","o","b","l","e","m","s">>)>>)

dentalKeywords ==
  <<<<"c","a","v","i","t","y">>, <<"c","a","v","i","t","i","e","s">>, <<"d","e","c","a","y">>, <<"p","l","a","q","u","e">>, <<"t","a","r","t","a","r">>, <<"g","i","n","g","i","v","i","t","i","s">>,
    <<"p","e","r","i","o","d","o","n","t","a","l">>, <<"d","i","s","c","o","l","o","r","a","t","i","o","n">>, <<"s","t","a","i","n","i","n","g">>, <<"m","i","s","a","l","i","g","n","m","e","n","t">>,
    <<"c","r","o","o","k","e","d">>, <<"w","i","s","d","o","m"," ","t","o","o","t","h">>, <<"i","n","f","l","a","m","e","d"," ","g","u","m","s">>, <<"r","e","c","e","d","i","n","g"," ","g","u","m","s">>>>

skinKeywords ==
  <<<<"a","c","n","e">>, <<"r","o","s","a","c","e","a">>, <<"e","c","z","e","m","a">>, <<"p","s","o","r","i","a","s","i","s">>, <<"d","e","r","m","a","t","i","t","i","s">>,
    <<"f","o","l","l","i","c","u","l","i","t","i","s">>, <<"h","i","v","e","s">>, <<"r","a","s","h">>, <<"m","e","l","a","n","o","m","a">>, <<"m","o","l","e">>,
    <<"s","u","n","b","u","r","n">>, <<"h","y","p","e","r","p","i","g","m","e","n","t","a","t","i","o","n">>, <<"d","r","y","n","e","s","s">>, <<"i","r","r","i","t","a","t","i","o","n">>>>

postureKeywords ==
  <<<<"f","o","r","w","a","r","d"," ","h","e","a","d">>, <<"r","o","u","n","d","e","d"," ","s","h","o","u","l","d","e","r","s">>, <<"k","y","p","h","o","s","i","s">>, <<"l","o","r","d","o","s","i","s">>, <<"s","c","o","l","i","o","s","i","s">>,
    <<"a","n","t","e","r","i","o","r"," ","p","e","l","v","i","c"," ","t","i","l","t">>, <<"p","o","s","t","e","r","i","o","r"," ","p","e","l","v","i","c"," ","t","i","l","t">>, <<"h","u","n","c","h","e","d">>, <<"s","l","o","u","c","h","e","d">>,
    <<"u","n","e","v","e","n"," ","s","h","o","u","l","d","e","r","s">>, <<"h","e","a","d"," ","t","i","l","t">>, <<"n","e","c","k"," ","s","t","r","a","i","n">>, <<"t","e","x","t"," ","n","e","c","k">>, <<"u","n","e","v","e","n"," ","h","i","p","s">>,
    <<"f","l","a","t"," ","b","a","c","k">>, <<"s","w","a","y","b","a","c","k">>, <<"m","i","l","i","t","a","r","y"," ","p","o","s","t","u","r","e">>, <<"m","i","s","a","l","i","g","n","m","e","n","t">>>>

abnormalityKeywords ==
  <<<<"b","l","o","o","d">>, <<"m","u","c","u","s">>, <<"p","u","s">>, <<"u","n","d","i","g","e","s","t","e","d">>, <<"p","a","r","a","s","i","t","e">>, <<"w","o","r","m">>,
    <<"b","l","a","c","k">>, <<"t","a","r","r","y">>, <<"p","a","l","e">>, <<"g","r","e","a","s","y">>, <<"f","l","o","a","t","i","n","g">>, <<"f","o","u","l">>,
    <<"d","i","a","r","r","h","e","a">>, <<"c","o","n","s","t","i","p","a","t","i","o","n">>, <<"i","r","r","e","g","u","l","a","r">>, <<"a","b","n","o","r","m","a","l">>>>

\* /(?<=[.!?])\s+/
sentencePattern == Cat(<<Behind(Cls({".", "!", "?"})), Plus(S)>>)

\* variant: the last sentence that contains the keyword is taken
findSentence_last(sentences, keyword) ==
  LET found == {j \in 1..Len(sentences) : includes(toLowerCase(sentences[j]), keyword)}
  IN IF found = {} THEN <<>>
     ELSE <<trim(sentences[CHOOSE j \in found : \A h \in found : h <= j])>>

\* `for (const sentence of sentences) if (sentence.toLowerCase().includes(keyword))
\* { issues.push(sentence.trim()); break; }`: what is pushed
findSentence(sentences, keyword) ==
  LET found == {j \in 1..Len(sentences) : includes(toLowerCase(sentences[j]), keyword)}
  IN IF found = {} THEN <<>>
     ELSE <<trim(sentences[CHOOSE j \in found : \A h \in found : j <= h])>>

\* the loop over the keywords, from the n-th on: a keyword that the text
\* contains and no entry contains yet adds its sentence
RECURSIVE keywordExtraction(_, _, _, _, _)
keywordExtraction(lower, sentences, issues, keywords, n) ==
  IF n > Len(keywords) THEN issues
  ELSE The({keywordExtraction(lower, sentences, next, keywords, n + 1) :
            next \in {IF /\ includes(lower, keywords[n])
                         /\ ~\E i \in 1..Len(issues) :
                               includes(toLowerCase(issues[i]), keywords[n])
                      THEN issues \o findSentence(sentences, keywords[n])
                      ELSE issues}})

\* the body the four extractors share, up to its return statement: the
\* lines of the header section, then the keyword loop
pushedIssues(text, pattern, keywords) ==
  The({The({The({keywordExtraction(lower, sentences, issues, keywords, 1) :
                 sentences \in {splitRegExp(text, sentencePattern, FALSE)}}) :
            lower \in {toLowerCase(text)}}) :
       issues \in {sectionOf(text, pattern)}})

\* `return [...new Set(issues)]`; a value that is not a string throws at
\* `analysisText.match` and the catch clause returns []
extractIssues(analysisText, pattern, keywords) ==
  IF analysisText.t # "string" THEN Arr(<<>>)
  ELSE The({Arr(newSet(issues)) :
            issues \in {pushedIssues(analysisText.v, pattern, keywords)}})

extractDentalIssues(analysisText) ==
  extractIssues(analysisText, dentalIssuesPattern, dentalKeywords)

extractSkinConditions(analysisText) ==
  extractIssues(analysisText, skinConditionsPattern, skinKeywords)

extractPostureIssues(analysisText) ==
  extractIssues(analysisText, postureIssuesPattern, postureKeywords)

extractAbnormalities(analysisText) ==
  extractIssues(analysisText, abnormalitiesPattern, abnormalityKeywords)

\* part_006 line 825
exercisePattern ==
  sectionPattern(<<Lit(<<"e","x","e","r","c","i","s","e"," ","r","e","c","o","m","m","e","n","d","a","t","i","o","n","s">>), Lit(<<"e","x","e","r","c","i","s","e","s">>), Lit(<<"s","t","r","e","t","c","h","e","s">>),
                   Lit(<<"r","e","c","o","m","m","e","n","d","e","d"," ","e","x","e","r","c","i","s","e","s">>)>>)

\* /recommendations:?.*?\n((?:.+\n?)+?)(?:\n\n|\Z)/i
exerciseFallbackPattern ==
  Cat(<<Lit(<<"r","e","c","o","m","m","e","n","d","a","t","i","o","n","s">>),
        Opt(Chr(":")), LazyStar(Dot), Chr("\n"),
        Grp(1, LazyPlus(Cat(<<Plus(Dot), Opt(Chr("\n"))>>))),
        Alt(<<Lit(<<"\n","\n">>), IdentityEscape("Z")>>)>>)

exerciseKeywords ==
  <<<<"e","x","e","r","c","i","s","e">>, <<"s","t","r","e","t","c","h">>, <<"s","t","r","e","n","g","t","h","e","n">>, <<"p","o","s","t","u","r","e">>, <<"w","o","r","k","o","u","t">>,
    <<"y","o","g","a">>, <<"p","i","l","a","t","e","s">>, <<"m","o","b","i","l","i","t","y">>, <<"f","l","e","x","i","b","i","l","i","t","y">>, <<"c","o","r","e">>,
    <<"s","h","o","u","l","d","e","r","s">>, <<"n","e","c","k">>, <<"b","a","c","k">>, <<"s","p","i","n","e">>, <<"c","h","e","s","t">>>>

\* extractExerciseRecommendations up to its return statement: the lines of
\* the exercise section; when there is none, the lines of the
\* recommendations section that contain an exercise keyword
pushedExercises(text) ==
  The({IF Len(exercises) # 0 THEN exercises
       ELSE The({SelectSeq(recLines, LAMBDA line : mentions(line, exerciseKeywords)) :
                 recLines \in {sectionOf(text, exerciseFallbackPattern)}}) :
       exercises \in {sectionOf(text, exercisePattern)}})

extractExerciseRecommendations(analysisText) ==
  IF analysisText.t # "string" THEN Arr(<<>>)
  ELSE The({Arr(newSet(exercises)) : exercises \in {pushedExercises(analysisText.v)}})

\* nutri-snap/index.ts line 100
foodItemsPattern ==
  sectionPattern(<<Lit(<<"f","o","o","d"," ","i","t","e","m","s">>), Lit(<<"i","n","g","r","e","d","i","e","n","t","s">>), Lit(<<"c","o","n","t","e","n","t","s">>),
                   Lit(<<"m","e","a","l"," ","c","o","n","t","a","i","n","s">>), Lit(<<"d","i","s","h"," ","c","o","n","s","i","s","t","s"," ","o","f">>)>>)
\* nutri-snap/index.ts line 112
assessmentPattern ==
  sectionPattern(<<Lit(<<"a","s","s","e","s","s","m","e","n","t">>), Lit(<<"a","n","a","l","y","s","i","s">>), Lit(<<"o","v","e","r","v","i","e","w">>)>>)

foodPhrases ==
  <<<<"c","o","n","t","a","i","n","s">>, <<"c","o","n","s","i","s","t","s"," ","o","f">>, <<"i","n","c","l","u","d","e","s">>, <<"c","o","m","p","o","s","e","d"," ","o","f">>,
    <<"m","a","d","e"," ","u","p"," ","o","f">>, <<"v","i","s","i","b","l","e">>, <<"a","p","p","e","a","r","s"," ","t","o"," ","b","e">>, <<"a","p","p","e","a","r","s"," ","t","o"," ","h","a","v","e">>>>

\* new RegExp(`${phrase}\\s+`, 'i')
phrasePattern(phrase) == Cat(<<Lit(phrase), Plus(S)>>)
\* /\.$/
trailingPeriodPattern == Cat(<<Chr("."), Eol>>)
\* /,\s*|\s+and\s+|\s*&\s*/
foodListPattern ==
  Alt(<<Cat(<<Chr(","), Star(S)>>),
        Cat(<<Plus(S), Lit(<<"a","n","d">>), Plus(S)>>),
        Cat(<<Star(S), Chr("&"), Star(S)>>)>>)

\* the items of one sentence of the assessment: what follows the first food
\* phrase the sentence contains, without its final period, cut at commas,
\* "and" and "&"; nothing when the sentence has no phrase or nothing
\* precedes or follows it
foodList(sentence) ==
  LET lower == toLowerCase(sentence)
      found == {n \in 1..Len(foodPhrases) : includes(lower, foodPhrases[n])}
  IN IF found = {} THEN <<>>
     ELSE The({IF Len(parts) <= 1 THEN <<>>
               ELSE The({SelectSeq([n \in 1..Len(items) |-> trim(items[n])],
                                   LAMBDA item : item # <<>>) :
                         items \in {splitRegExp(replace(parts[2], trailingPeriodPattern, FALSE, <<>>),
                                                foodListPattern, FALSE)}}) :
               parts \in {splitRegExp(sentence,
                                      phrasePattern(foodPhrases[CHOOSE n \in found :
                                                                  \A h \in found : n <= h]),
                                      TRUE)}})

\* the items of the sentences from the n-th on
RECURSIVE foodLists(_, _)
foodLists(sentences, n) ==
  IF n > Len(sentences) THEN <<>>
  ELSE The({head \o foodLists(sentences, n + 1) : head \in {foodList(sentences[n])}})

\* extractFoodItems up to its return statement: the lines of the food
\* section; when there is none, the food lists of the sentences of the
\* assessment section
pushedItems(text) ==
  The({IF Len(items) # 0 THEN items
       ELSE The({IF Truthy(assessment) /\ Truthy(assessment.v[1])
                 THEN foodLists(splitRegExp(assessment.v[1].v, sentencePattern, FALSE), 1)
                 ELSE <<>> :
                 assessment \in {match(text, assessmentPattern, TRUE, 1)}}) :
       items \in {sectionOf(text, foodItemsPattern)}})

extractFoodItems(analysisText) ==
  IF analysisText.t # "string" THEN Arr(<<>>)
  ELSE The({Arr(newSet(items)) : items \in {pushedItems(analysisText.v)}})

\* \w
W == Cls(Letters \cup Digits \cup {"_"})

\* part_006 line 579
hydrationPattern ==
  Cat(<<Alt(<<Lit(<<"h","y","d","r","a","t","i","o","n">>),
              Cat(<<Lit(<<"w","a","t","e","r">>), Plus(S), Lit(<<"i","n","t","a","k","e">>)>>),
              Cat(<<Lit(<<"f","l","u","i","d">>), Plus(S), Lit(<<"i","n","t","a","k","e">>)>>)>>),
        Opt(Alt(<<Cat(<<Plus(S), Lit(<<"a","p","p","e","a","r","s">>)>>), Cat(<<Plus(S), Lit(<<"s","e","e","m","s">>)>>),
                  Cat(<<Plus(S), Lit(<<"i","s">>)>>), Cat(<<Plus(S), Lit(<<"l","o","o","k","s">>)>>),
                  Cat(<<Plus(S), Lit(<<"l","e","v","e","l">>)>>), Cat(<<Plus(S), Lit(<<"s","t","a","t","u","s">>)>>),
                  Cat(<<Plus(S), Lit(<<"i","n","d","i","c","a","t","o","r">>)>>)>>)),
        Opt(Cat(<<Plus(S), Lit(<<"t","o">>), Plus(S), Lit(<<"b","e">>)>>)),
        Opt(Cat(<<Plus(S), Lit(<<"i","s">>)>>)),
        Star(Cls(WhiteSpace \cup {":"})),
        Grp(1, Plus(W))>>)

\* the three groups of terms, lines 585-589
lowTerms == <<<<"l","o","w">>, <<"i","n","a","d","e","q","u","a","t","e">>, <<"p","o","o","r">>, <<"i","n","s","u","f","f","i","c","i","e","n","t">>, <<"d","e","h","y","d","r","a","t">>>>
normalTerms == <<<<"n","o","r","m","a","l">>, <<"a","d","e","q","u","a","t","e">>, <<"s","u","f","f","i","c","i","e","n","t">>, <<"o","k","a","y">>, <<"o","k">>, <<"f","i","n","e">>>>
goodTerms == <<<<"g","o","o","d">>, <<"e","x","c","e","l","l","e","n","t">>, <<"g","r","e","a","t">>, <<"o","p","t","i","m","a","l">>, <<"w","e","l","l">>, <<"h","i","g","h">>>>

\* `text.match(/(?:a|b|...)/)` is truthy: the text contains one of the terms
matchesTerm(text, terms) == \E n \in 1..Len(terms) : includes(text, terms[n])

\* lines 585-591: the word after the hydration wording mapped to a level
hydrationTerm(hydrationText) ==
  IF matchesTerm(hydrationText, lowTerms) THEN Str(<<"l","o","w">>)
  ELSE IF matchesTerm(hydrationText, normalTerms) THEN Str(<<"n","o","r","m","a","l">>)
  ELSE IF matchesTerm(hydrationText, goodTerms) THEN Str(<<"g","o","o","d">>)
  ELSE Undefined

\* lines 595-601: the text as a whole
hydrationMention(analysisText) ==
  The({IF includes(lower, <<"d","e","h","y","d","r","a","t">>) THEN Str(<<"l","o","w">>)
       ELSE IF includes(lower, <<"w","e","l","l"," ","h","y","d","r","a","t","e","d">>) THEN Str(<<"g","o","o","d">>)
       ELSE Undefined :
       lower \in {toLowerCase(analysisText)}})

\* extractHydrationLevel: the word after the hydration wording decides when
\* it is one of the terms; otherwise the mentions in the whole text do
extractHydrationLevel(analysisText) ==
  IF analysisText.t # "string" THEN Undefined
  ELSE The({The({IF level # Undefined THEN level ELSE hydrationMention(analysisText.v) :
                 level \in {IF Truthy(m) /\ Truthy(m.v[1])
                            THEN hydrationTerm(toLowerCase(m.v[1].v))
                            ELSE Undefined}}) :
            m \in {match(analysisText.v, hydrationPattern, TRUE, 1)}})

(***************************************************************************)
(* extractNutritionalInfo (nutri-snap/index.ts) and the response objects   *)
(***************************************************************************)
\* (?:approximately|approx|around|about|estimated at|~)?
approximately ==
  Opt(Alt(<<Lit(<<"a","p","p","r","o","x","i","m","a","t","e","l","y">>), Lit(<<"a","p","p","r","o","x">>), Lit(<<"a","r","o","u","n","d">>), Lit(<<"a","b","o","u","t">>),
            Lit(<<"e","s","t","i","m","a","t","e","d"," ","a","t">>), Chr("~")>>))

\* nutri-snap line 172
caloriesPattern ==
  Cat(<<Alt(<<Lit(<<"c","a","l","o","r","i","e","s">>), Lit(<<"c","a","l","o","r","i","c"," ","c","o","n","t","e","n","t">>), Lit(<<"e","n","e","r","g","y"," ","c","o","n","t","e","n","t">>),
              Lit(<<"c","a","l","o","r","i","c"," ","v","a","l","u","e">>)>>),
        Star(Cls(WhiteSpace \cup {":"})), approximately, Star(S), Grp(1, Plus(D)),
        Opt(Alt(<<Cat(<<Star(S), Chr("-"), Star(S)>>),
                  Cat(<<Star(S), Lit(<<"t","o">>), Star(S)>>)>>)),
        Star(D), Star(S), Alt(<<Lit(<<"k","c","a","l">>), Lit(<<"c","a","l","o","r","i","e","s">>)>>)>>)

\* nutri-snap lines 179-184: the pattern of a macro under its names
macroPatterns(names) ==
  Cat(<<Alt(names), Star(Cls(WhiteSpace \cup {":"})), approximately, Star(S),
        Grp(1, Plus(D)), Opt(Cat(<<Chr("."), Plus(D)>>)), Star(S),
        Alt(<<Lit(<<"g">>), Lit(<<"g","r","a","m","s">>)>>)>>)

\* `const m = analysisText.match(pattern); if (m && m[1]) x = parseInt(m[1], 10)`
parsedNumber(text, pattern) ==
  The({IF Truthy(m) /\ Truthy(m.v[1]) THEN parseInt(m.v[1].v) ELSE Undefined :
       m \in {match(text, pattern, TRUE, 1)}})

\* nutri-snap line 194
vitaminSectionPattern ==
  sectionPattern(<<Lit(<<"v","i","t","a","m","i","n","s">>), Lit(<<"m","i","n","e","r","a","l","s">>), Lit(<<"m","i","c","r","o","n","u","t","r","i","e","n","t","s">>)>>)

\* nutri-snap line 205
vitaminPattern ==
  Cat(<<Bol,
        Grp(1, Alt(<<Cat(<<Lit(<<"v","i","t","a","m","i","n">>), Plus(S), Plus(W)>>), Lit(<<"c","a","l","c","i","u","m">>),
                     Lit(<<"i","r","o","n">>), Lit(<<"z","i","n","c">>), Lit(<<"p","o","t","a","s","s","i","u","m">>), Lit(<<"m","a","g","n","e","s","i","u","m">>)>>)),
        Alt(<<Plus(Cls(WhiteSpace \cup {":", "-"})), Cat(<<Star(S), Chr("(")>>)>>),
        Grp(2, Alt(<<Lit(<<"h","i","g","h">>), Lit(<<"m","e","d","i","u","m">>), Lit(<<"l","o","w">>), Lit(<<"g","o","o","d">>),
                     Lit(<<"e","x","c","e","l","l","e","n","t">>), Cat(<<Plus(D), Chr("%")>>)>>))>>)

\* nutri-snap lines 210-217: the rating as a number
numericValue(value) ==
  IF Truthy(match(value, Alt(<<Lit(<<"h","i","g","h">>), Lit(<<"e","x","c","e","l","l","e","n","t">>)>>), TRUE, 0)) THEN Num(80)
  ELSE IF Truthy(match(value, Alt(<<Lit(<<"m","e","d","i","u","m">>), Lit(<<"g","o","o","d">>)>>), TRUE, 0)) THEN Num(50)
  ELSE IF Truthy(match(value, Lit(<<"l","o","w">>), TRUE, 0)) THEN Num(20)
  ELSE IF includes(value, <<"%">>)
  THEN The({IF Truthy(percentMatch) THEN parseInt(percentMatch.v[1].v) ELSE Num(0) :
            percentMatch \in {match(value, Cat(<<Grp(1, Plus(D)), Chr("%")>>), FALSE, 1)}})
  ELSE Num(0)

\* nutri-snap lines 203-221: the vitamins object after the first n lines, a
\* function from the names to the numbers; a later line of the same name
\* replaces the earlier one
RECURSIVE vitaminsOf(_, _)
vitaminsOf(vitaminLines, n) ==
  IF n = 0 THEN <<>>
  ELSE The({The({IF Truthy(vitaminMatch)
                 THEN (toLowerCase(trim(vitaminMatch.v[1].v)) :> numericValue(vitaminMatch.v[2].v))
                        @@ vitamins
                 ELSE vitamins :
                 vitaminMatch \in {match(vitaminLines[n], vitaminPattern, TRUE, 2)}}) :
            vitamins \in {vitaminsOf(vitaminLines, n - 1)}})

\* nutri-snap lines 194-226: the vitamins property, set when a line gave one
extractVitamins(text) ==
  The({The({IF DOMAIN vitamins # {} THEN Obj(vitamins) ELSE Undefined :
            vitamins \in {vitaminsOf(vitaminLines, Len(vitaminLines))}}) :
       vitaminLines \in {sectionOf(text, vitaminSectionPattern)}})

\* extractNutritionalInfo: a property that was not set reads as undefined;
\* `{}` from the catch clause on a value that is not a string
extractNutritionalInfo(analysisText) ==
  IF analysisText.t # "string"
  THEN Obj([calories |-> Undefined, protein |-> Undefined, carbs |-> Undefined,
            fat |-> Undefined, fiber |-> Undefined, vitamins |-> Undefined])
  ELSE Obj([calories |-> parsedNumber(analysisText.v, caloriesPattern),
            protein |-> parsedNumber(analysisText.v, macroPatterns(<<Lit(<<"p","r","o","t","e","i","n">>)>>)),
            carbs |-> parsedNumber(analysisText.v,
                                   macroPatterns(<<Lit(<<"c","a","r","b","s">>), Lit(<<"c","a","r","b","o","h","y","d","r","a","t","e","s">>)>>)),
            fat |-> parsedNumber(analysisText.v, macroPatterns(<<Lit(<<"f","a","t">>), Lit(<<"f","a","t","s">>)>>)),
            fiber |-> parsedNumber(analysisText.v,
                                   macroPatterns(<<Lit(<<"f","i","b","e","r">>), Lit(<<"f","i","b","r","e">>)>>)),
            vitamins |-> extractVitamins(analysisText.v)])

\* the domain fields of the response object literal (dental-check lines
\* 249-251 and the like); the skin handler does not get past
\* shouldRecommendDermatologist
domainFields(h, analysisText, concerns) ==
  CASE h = "dental-check" ->
         [dentalIssues |-> extractDentalIssues(analysisText),
          oralHygieneScore |-> extractOralHygieneScore(analysisText),
          dentistRecommended |-> shouldRecommendDentist(analysisText, concerns).value]
    [] h = "posture-check" ->
         [postureIssues |-> extractPostureIssues(analysisText),
          postureScore |-> extractPostureScore(analysisText),
          exerciseRecommendations |-> extractExerciseRecommendations(analysisText)]
    [] h = "nutri-snap" ->
         [foodItems |-> extractFoodItems(analysisText),
          nutritionalInfo |-> extractNutritionalInfo(analysisText),
          healthScore |-> extractHealthScore(analysisText)]
    [] h = "poop-health" ->
         [stoolType |-> extractBristolType(analysisText),
          abnormalities |-> extractAbnormalities(analysisText),
          hydrationIndicator |-> extractHydrationLevel(analysisText),
          doctorConsultationRecommended |->
            shouldRecommendDoctor(analysisText, concerns).value]

\* the response object literal built after the vision call: parsedResults
\* spread, the domain extractors, rawAnalysis
assembleResponse(h, analysisText) ==
  LET parsedResults == parseAnalysisResults(analysisText)
      rec == recommendationCall(h, analysisText)
  IN IF rec.kind = "throw" THEN rec
     ELSE Return([analysis |-> parsedResults["analysis"],
                  concerns |-> Arr(parsedResults["concerns"]),
                  recommendations |-> Arr(parsedResults["recommendations"]),
                  rawAnalysis |-> analysisText,
                  id |-> Undefined,
                  nearbyProviders |-> Undefined]
                 @@ domainFields(h, analysisText, parsedResults["concerns"]))

(***************************************************************************)
(* Inputs                                                                  *)
(***************************************************************************)
ImageField == [key |-> "image", name |-> <<"i","m","a","g","e">>]
ImageData == <<"Q","U","J","D">>
User1 == <<"u","1">>
Location == Obj([latitude |-> 1, longitude |-> 2])

\* the analysis texts the vision model answers with
TextHealthy == <<"T","e","e","t","h"," ","l","o","o","k"," ","h","e","a","l","t","h","y",".">>
TextBlurry == <<"T","h","e"," ","i","m","a","g","e"," ","i","s"," ","t","o","o"," ","b","l","u","r","r","y"," ","t","o"," ","a","n","a","l","y","z","e">>
TextUpper == <<"I"," ","a","m"," ","U","N","A","B","L","E"," ","T","O"," ","A","N","A","L","Y","Z","E"," ","t","h","i","s"," ","p","h","o","t","o">>
TextDetailed ==
  <<"C","o","n","c","e","r","n","s",":","\n","-"," ","S","u","g","a","r","\n","\n","H","y","g","i","e","n","e"," ","s","c","o","r","e",":"," ","7","/","1","0","."," ","H","e","a","l","t","h"," ","s","c","o","r","e",":"," ","6","/","1","0",","," ","c","a","l","o","r","i","e","s",":"," ","2","5","0"," ","k","c","a","l","\n","V","i","t","a","m","i","n","s",":","\n","-"," ","I","r","o","n",":"," ","l","o","w","\n","\n">>
Contents == {TextHealthy, TextBlurry, TextUpper, TextDetailed}

Methods == {"OPTIONS", "GET", "POST"}

NoBody == [kind |-> "none", value |-> Undefined]
JsonBody(v) == [kind |-> "json", value |-> v]
RequestData(image, userId, findProviders, location) ==
  Obj([image |-> image, userId |-> userId,
       findProviders |-> findProviders, location |-> location])

\* every body a POST can carry: not JSON, JSON null, or an object with each
\* field absent or present
Bodies ==
  {[kind |-> "unparsable", value |-> Undefined], JsonBody(Null)}
  \cup {JsonBody(RequestData(i, u, f, l)) :
          i \in {Undefined, Null, Str(<<>>), Str(ImageData)},
          u \in {Undefined, Str(<<>>), Str(User1)},
          f \in {Undefined, Bool(FALSE), Bool(TRUE)},
          l \in {Undefined, Location}}

\* the bodies of the concurrent specification: clients that all ask for
\* persistence and lookup, with or without an image
ConcBodies ==
  {JsonBody(RequestData(i, Str(User1), Bool(TRUE), Location)) :
          i \in {Undefined, Str(ImageData)}}
ConcHandlers == {"dental-check", "nutri-snap"}

\* the ways the fetch of the completion endpoint settles
FetchOutcomes ==
  {[kind |-> "reject", ok |-> FALSE, status |-> <<>>, text |-> <<>>],
   [kind |-> "response", ok |-> FALSE, status |-> <<"4","2","9">>, text |-> <<"r","a","t","e"," ","l","i","m","i","t","e","d">>],
   [kind |-> "response", ok |-> TRUE, status |-> <<"2","0","0">>, text |-> <<>>]}

ConcFetchOutcomes == {o \in FetchOutcomes : o.kind = "response" /\ o.ok}

\* the ways response.json() settles
DecodedBodies ==
  {[kind |-> "reject", choices |-> Undefined],
   [kind |-> "json", choices |-> Undefined],
   [kind |-> "json", choices |-> Arr(<<>>)],
   [kind |-> "json", choices |-> Arr(<<[content |-> Undefined]>>)]}
  \cup {[kind |-> "json", choices |-> Arr(<<[content |-> Str(c)]>>)] : c \in Contents}

ConcDecodedBodies ==
  {[kind |-> "json", choices |-> Arr(<<[content |-> Str(c)]>>)] : c \in {TextHealthy, TextBlurry}}

BaseInsertOutcomes == {"ok", "error", "nodata", "throw"}
SpecificInsertOutcomes == {"ok", "error", "throw"}
DeleteOutcomes == {"ok", "error", "throw"}
\* the provider query: rows (possibly none), an error, no data, a rejection
LookupOutcomes == {"rows", "empty", "error", "nodata", "throw"}

ConcLookupOutcomes == {"rows", "error"}

\* the arguments of a function applied on its own: the text of the model,
\* the concern lines and recommendation lines it was written from (the
\* handlers hand the concerns on to the recommendation heuristics)
Arguments(text, concerns, recommendations) ==
  [text |-> text, concerns |-> concerns, recommendations |-> recommendations]

SeqsUpTo(T, min, max) == UNION {[1..n -> T] : n \in min..max}

RECURSIVE join(_, _)
join(lines, sep) ==
  IF lines = <<>> THEN <<>>
  ELSE IF Len(lines) = 1 THEN lines[1]
  ELSE lines[1] \o sep \o join(Tail(lines), sep)

\* a refusal phrasing inside a sentence: as listed, in capitals, and cut
\* short by its last letter
toUpperCase(s) ==
  [i \in 1..Len(s) |->
     IF \E u \in DOMAIN UpperToLower : UpperToLower[u] = s[i]
     THEN CHOOSE u \in DOMAIN UpperToLower : UpperToLower[u] = s[i]
     ELSE s[i]]

RefusalTexts ==
  UNION {{<<"S","o","r","r","y",","," ">> \o unableToAnalyzePatterns[n] \o <<".">>,
          <<"S","o","r","r","y",","," ">> \o toUpperCase(unableToAnalyzePatterns[n]) \o <<".">>,
          <<"S","o","r","r","y",","," ">> \o SubSeq(unableToAnalyzePatterns[n], 1, Len(unableToAnalyzePatterns[n]) - 1) \o <<".">>}
         : n \in 1..Len(unableToAnalyzePatterns)}

\* free texts of up to MaxLines lines
TextLines == {<<"C","o","n","c","e","r","n","s",":">>, <<"A","d","v","i","c","e",":"," ","f","l","o","s","s">>, <<"-"," "," ","P","l","a","q","u","e"," ","b","u","i","l","d","u","p"," ">>, <<>>}
FreeTexts == {join(lines, <<"\n">>) : lines \in SeqsUpTo(TextLines, 1, MaxLines)}

\* a text with a "Concerns:" section and a "Recommendations:" section of
\* bulleted lines, each section ended by a blank line, a header line or the
\* end of the text
ConcernItems == {<<"M","i","l","d"," ","g","i","n","g","i","v","i","t","i","s">>, <<"P","l","a","q","u","e"," ","b","u","i","l","d","u","p">>}
RecommendationLists == {<<<<"F","l","o","s","s"," ","d","a","i","l","y">>>>, <<<<"F","l","o","s","s"," ","d","a","i","l","y">>, <<"U","s","e"," ","a"," ","s","o","f","t"," ","b","r","u","s","h">>>>}
bulleted(items) == join([n \in 1..Len(items) |-> <<"-"," ">> \o items[n]], <<"\n">>)
wellFormedText(intro, concerns, gap, recommendations, end) ==
  intro \o <<"C","o","n","c","e","r","n","s",":","\n">> \o bulleted(concerns) \o gap
        \o <<"R","e","c","o","m","m","e","n","d","a","t","i","o","n","s",":","\n">> \o bulleted(recommendations) \o end
WellFormedArguments ==
  {Arguments(Str(wellFormedText(intro, concerns, gap, recommendations, end)),
             concerns, recommendations) :
     intro \in {<<>>, <<"S","u","m","m","a","r","y",":"," ","f","i","n","e",".","\n","\n">>},
     concerns \in SeqsUpTo(ConcernItems, 1, MaxItems),
     gap \in {<<"\n","\n">>, <<"\n">>},
     recommendations \in RecommendationLists,
     end \in {<<>>, <<"\n">>, <<"\n","\n">>, <<"\n","\n","N","o","t","e","s",":"," ","n","o","n","e">>}}

\* a labelled number in a sentence
DecimalString(n) ==
  IF n < 10 THEN <<DigitChars[n + 1]>>
  ELSE <<DigitChars[(n \div 10) + 1], DigitChars[(n % 10) + 1]>>
ScoreLabels ==
  {<<"o","r","a","l"," ","h","y","g","i","e","n","e"," ","s","c","o","r","e">>, <<"h","y","g","i","e","n","e"," ","s","c","o","r","e">>, <<"s","c","o","r","e">>, <<"s","e","v","e","r","i","t","y"," ","l","e","v","e","l">>,
   <<"c","o","n","d","i","t","i","o","n"," ","r","a","t","i","n","g">>, <<"p","o","s","t","u","r","e"," ","s","c","o","r","e">>, <<"h","e","a","l","t","h"," ","s","c","o","r","e">>, <<"n","u","t","r","i","t","i","o","n","a","l"," ","v","a","l","u","e">>,
   <<"B","r","i","s","t","o","l"," ","s","t","o","o","l"," ","t","y","p","e">>, <<"B","r","i","s","t","o","l"," ","S","c","a","l","e"," ","c","l","a","s","s","i","f","i","c","a","t","i","o","n">>, <<"s","t","o","o","l"," ","t","y","p","e">>}
ScoreTexts ==
  {<<"T","h","e"," ">> \o label \o verb \o DecimalString(n) \o scale \o <<".">> :
     label \in ScoreLabels,
     verb \in {<<" ","o","f"," ">>, <<" ","i","s"," ">>, <<":"," ">>},
     n \in 0..MaxNumber,
     scale \in {<<"/","1","0">>, <<" ","o","u","t"," ","o","f"," ","1","0">>, <<>>}}
\* two labelled scores, and the other wordings of a Bristol type
TwoScoreTexts ==
  {<<"A","n"," ","o","r","a","l"," ","h","y","g","i","e","n","e"," ","s","c","o","r","e"," ","o","f"," ">> \o DecimalString(n) \o <<"/","1","0",","," ","l","a","t","e","r"," ","a"," ","h","y","g","i","e","n","e"," ","s","c","o","r","e"," ","o","f"," ">>
     \o DecimalString(m) \o <<" ","o","u","t"," ","o","f"," ","1","0",".">> : n \in {6, 11}, m \in {3, 11}}
  \cup {<<"A"," ","h","y","g","i","e","n","e"," ","s","c","o","r","e"," ","o","f"," ">> \o DecimalString(n) \o <<"/","1","0",","," ","l","a","t","e","r"," ","a","n"," ","o","r","a","l"," ","h","y","g","i","e","n","e"," ","s","c","o","r","e"," ","o","f"," ">>
           \o DecimalString(m) \o <<"/","1","0",".">> : n \in {6, 11}, m \in {3, 11}}
BristolTexts ==
  {<<"B","r","i","s","t","o","l"," ","s","t","o","o","l"," ","t","y","p","e"," ">> \o verb \o DecimalString(n) \o rest :
     verb \in {<<"i","s"," ">>, <<"i","s">>, <<":"," ">>, <<"a","p","p","e","a","r","s"," ","t","o"," ","b","e"," ">>},
     n \in {1, 4, 7, 8},
     rest \in {<<>>, <<","," ","s","e","e"," ","a"," ","d","o","c","t","o","r">>, <<" ","w","i","t","h"," ","b","l","o","o","d">>}}
  \cup {<<"T","h","e"," ","t","y","p","e"," ","i","s">> \o DecimalString(n) \o <<" ","o","n"," ","t","h","e"," ","B","r","i","s","t","o","l"," ","c","h","a","r","t">> : n \in {1, 4, 7, 8}}

\* a text and the concerns found in it, for the dentist heuristic
DentistTexts ==
  {<<"T","e","e","t","h"," ","l","o","o","k"," ","h","e","a","l","t","h","y",".">>, <<"P","l","e","a","s","e"," ","S","E","E"," ","A"," ","D","E","N","T","I","S","T"," ","s","o","o","n",".">>, <<"D","e","n","t","a","l"," ","h","y","g","i","e","n","e"," ","i","s"," ","f","i","n","e",".">>}
DentistConcerns == {<<"P","l","a","q","u","e"," ","b","u","i","l","d","u","p">>, <<"N","e","e","d","s"," ","D","e","n","t","a","l"," ","T","r","e","a","t","m","e","n","t">>}
DentistArguments ==
  {Arguments(Str(text), concerns, <<>>) :
     text \in DentistTexts, concerns \in SeqsUpTo(DentistConcerns, 0, MaxConcerns)}

\* prose in which a header word occurs inside a sentence, followed by a
\* further line
ProseTexts ==
  {<<"T","h","e","r","e"," ","a","r","e"," ","s","o","m","e"," ","v","i","s","i","b","l","e"," ","i","s","s","u","e","s",".","\n","B","r","u","s","h"," ","t","w","i","c","e"," ","a"," ","d","a","y","\n","\n">>,
   <<"M","y"," ","a","d","v","i","c","e"," ","i","s"," ","s","i","m","p","l","e",".","\n","F","l","o","s","s"," ","d","a","i","l","y","\n","\n">>,
   <<"N","o"," ","i","s","s","u","e","s"," ","a","t"," ","a","l","l",".">>,
   <<"I"," ","s","e","e"," ","n","o"," ","c","o","n","c","e","r","n","s"," ","h","e","r","e",".","\n","I","s","s","u","e","s",":","\n","-"," ","P","l","a","q","u","e"," ","b","u","i","l","d","u","p","\n","\n">>}

\* what a handler may hand on that is not a string
NotStrings == {Undefined, Obj([text |-> Str(TextBlurry), success |-> FALSE])}

ApplicationArguments ==
  {Arguments(Str(text), <<>>, <<>>) :
     text \in RefusalTexts \cup FreeTexts \cup ProseTexts \cup ScoreTexts
               \cup TwoScoreTexts \cup BristolTexts}
  \cup {Arguments(v, <<>>, <<>>) : v \in NotStrings}
  \cup WellFormedArguments
  \cup DentistArguments

\* texts for the list extractors: sentences with keywords of the four
\* vocabularies, alone, after a section ended by a blank line, before a
\* section that runs to the end of the text, and after a section ended by a
\* header line
KeywordSentences ==
  {<<"M","i","l","d"," ","p","l","a","q","u","e"," ","a","n","d"," ","a"," ","r","a","s","h"," ","w","i","t","h"," ","m","u","c","u","s",".">>, <<"V","i","s","i","b","l","e"," ","P","L","A","Q","U","E",","," ","K","y","p","h","o","s","i","s"," ","a","n","d"," ","R","a","s","h","!">>,
   <<"T","a","r","t","a","r"," ","o","r"," ","b","l","o","o","d","?">>, <<"A","l","l"," ","i","s"," ","f","i","n","e",".">>}
Prose(pool) ==
  {join(sentences, sep) : sentences \in SeqsUpTo(pool, 1, MaxSentences), sep \in {<<" ">>, <<"\n">>}}
ListTexts ==
  UNION {{prose,
          <<"S","k","i","n"," ","i","s","s","u","e","s"," ","a","n","d"," ","p","r","o","b","l","e","m","s",":","\n","-"," ","T","a","r","t","a","r","\n","-"," ","T","a","r","t","a","r","\n","-"," ","D","r","y"," ","s","k","i","n","\n","\n">> \o prose,
          prose \o <<"\n","S","k","i","n"," ","i","s","s","u","e","s"," ","a","n","d"," ","p","r","o","b","l","e","m","s",":","\n","-"," ","T","a","r","t","a","r","\n","-"," ","R","a","s","h">>,
          <<"P","r","o","b","l","e","m","s",":"," ","s","k","i","n"," ","i","s","s","u","e","s","\n","-"," ","p","l","a","q","u","e","\n","N","o","t","e","s",":"," ">> \o prose} : prose \in Prose(KeywordSentences)}

\* texts for the hydration heuristic
HydrationSentences ==
  {<<"H","y","d","r","a","t","i","o","n"," ","i","s"," ","g","o","o","d",".">>, <<"H","y","d","r","a","t","i","o","n"," ","l","e","v","e","l",":"," ","L","O","W",".">>, <<"W","a","t","e","r"," ","i","n","t","a","k","e"," ","s","e","e","m","s"," ","t","o"," ","b","e"," ","a","d","e","q","u","a","t","e",".">>,
   <<"N","o"," ","s","i","g","n","s"," ","o","f"," ","d","e","h","y","d","r","a","t","i","o","n",".">>, <<"T","h","e"," ","p","a","t","i","e","n","t"," ","i","s"," ","w","e","l","l"," ","h","y","d","r","a","t","e","d",".">>, <<"H","y","d","r","a","t","i","o","n"," ","u","n","k","n","o","w","n",".">>}
HydrationTexts ==
  {join(sentences, <<" ">>) : sentences \in SeqsUpTo(HydrationSentences, 1, MaxSentences)}

\* texts with an exercise, a recommendations, a food or an assessment section
ExerciseTexts ==
  {<<"E","x","e","r","c","i","s","e","s",":","\n","-"," ","C","h","i","n"," ","t","u","c","k","s","\n","-"," ","W","a","l","l"," ","a","n","g","e","l","s","\n","-"," ","C","h","i","n"," ","t","u","c","k","s","\n","\n">>,
   <<"R","e","c","o","m","m","e","n","d","a","t","i","o","n","s",":","\n","-"," ","S","t","r","e","t","c","h"," ","t","h","e"," ","N","E","C","K","\n","-"," ","S","l","e","e","p"," ","m","o","r","e","\n","-"," ","S","t","r","e","t","c","h"," ","t","h","e"," ","N","E","C","K","\n","\n","D","o","n","e",".">>,
   <<"S","t","r","e","t","c","h","e","s",":"," ","d","a","i","l","y","\n","-"," ","C","o","b","r","a","\n","N","o","t","e","s",":"," ","n","o","n","e">>,
   <<"N","o"," ","a","d","v","i","c","e",".">>}
FoodTexts ==
  {<<"F","o","o","d"," ","i","t","e","m","s",":","\n","-"," ","R","i","c","e","\n","-"," ","B","e","a","n","s","\n","-"," ","R","i","c","e","\n","\n">>,
   <<"A","s","s","e","s","s","m","e","n","t",":","\n","T","h","e"," ","m","e","a","l"," ","c","o","n","t","a","i","n","s"," ","r","i","c","e",","," ","b","e","a","n","s"," ","a","n","d"," ","r","i","c","e"," ","&"," ","p","e","a","s","."," "," ","I","t"," ","a","p","p","e","a","r","s"," ","t","o"," ","b","e"," ","f","r","e","s","h","."," ","V","i","s","i","b","l","e"," ","s","a","l","a","d",".","\n","\n">>,
   <<"O","v","e","r","v","i","e","w",":","\n","T","h","e"," ","d","i","s","h"," ","i","n","c","l","u","d","e","s",".","\n","\n">>,
   <<"I","n","g","r","e","d","i","e","n","t","s",":"," ","n","o","n","e"," ","l","i","s","t","e","d">>}

ExtractionArguments ==
  {Arguments(Str(text), <<>>, <<>>) :
     text \in ListTexts \cup HydrationTexts \cup ExerciseTexts \cup FoodTexts}
  \cup {Arguments(v, <<>>, <<>>) : v \in NotStrings}

(***************************************************************************)
(* State                                                                   *)
(***************************************************************************)
VARIABLES
  apiKey,            \* Deno.env.get('OPENAI_API_KEY')
  pc,                \* where each request's handler is suspended
  req,               \* the request: handler, method, body
  ai,                \* how the handler's `await analyzeImage(...)` settled
  data,              \* the response object under assembly (dentalResponse, ...)
  st,                \* storeAnalysisResults: baseData and the settled result
  nearby,            \* how `await findNearbyProviders(...)` settled
  health_analyses,   \* the rows of the base table
  specific_analyses, \* the rows of the five domain-specific tables
  nextId,            \* the ids the store has generated so far
  responses,         \* the responses sent for each request, in order
  calls,             \* the collaborator calls made for each request, in order
  log,               \* the error log entries written for each request
  args,              \* a function of the source applied on its own: its arguments,
  called,            \* its name once it has been applied,
  returned           \* and what it returned

\* the function applied on its own, untouched by the handlers
application == <<args, called, returned>>

vars == <<apiKey, pc, req, ai, data, st, nearby, health_analyses,
          specific_analyses, nextId, responses, calls, log, args, called, returned>>

NoRequest == [handler |-> "none", method |-> "none", body |-> NoBody]
NoCall == [kind |-> "none", value |-> Undefined, message |-> <<>>]
NoData == [analysis |-> Undefined, rawAnalysis |-> Undefined,
           id |-> Undefined, nearbyProviders |-> Undefined]
NoStore == [baseData |-> Null, result |-> NoCall]

\* no request has arrived and the tables are empty
NoRequests ==
  /\ pc = [r \in Clients |-> "new"]
  /\ req = [r \in Clients |-> NoRequest]
  /\ ai = [r \in Clients |-> NoCall]
  /\ data = [r \in Clients |-> NoData]
  /\ st = [r \in Clients |-> NoStore]
  /\ nearby = [r \in Clients |-> NoCall]
  /\ health_analyses = {}
  /\ specific_analyses = {}
  /\ nextId = 0
  /\ responses = [r \in Clients |-> <<>>]
  /\ calls = [r \in Clients |-> <<>>]
  /\ log = [r \in Clients |-> <<>>]

\* no function is applied on its own
NoApplication ==
  /\ args = <<>>
  /\ called = "none"
  /\ returned = Undefined

Init ==
  /\ apiKey \in {Undefined, Str(<<"s","k">>)}
  /\ NoRequests
  /\ NoApplication

\* `return <response>`: the request is answered and the handler ends
Respond(r, response) ==
  /\ responses' = [responses EXCEPT ![r] = Append(@, response)]
  /\ pc' = [pc EXCEPT ![r] = "done"]

Goto(r, label) ==
  /\ pc' = [pc EXCEPT ![r] = label]
  /\ UNCHANGED responses

\* the handler's outer catch clause: logError(<handler>, error), status 500
HandlerCatch(r, message) ==
  /\ Respond(r, errorResponse(catchPrefix(req[r].handler) \o message, 500))
  /\ log' = [log EXCEPT ![r] = Append(@, req[r].handler)]

(***************************************************************************)
(* The serve handler (dental-check lines 213-294; the others alike)        *)
(***************************************************************************)
\* A request arrives: the CORS preflight and the method check, up to
\* `await req.json()`.  Only a POST carries a body.
Receive(r, handlers, methods, bodies) ==
  /\ pc[r] = "new"
  /\ \E h \in handlers, m \in methods, b \in bodies \cup {NoBody} :
       /\ (m = "POST") = (b # NoBody)
       /\ req' = [req EXCEPT ![r] = [handler |-> h, method |-> m, body |-> b]]
       /\ IF m = "OPTIONS" THEN Respond(r, preflightResponse)
          ELSE IF m # "POST" THEN Respond(r, errorResponse(MsgMethodNotAllowed, 405))
          ELSE Goto(r, "read_body")
  /\ UNCHANGED <<apiKey, ai, data, st, nearby, health_analyses, specific_analyses,
                 nextId, calls, log>>
  /\ UNCHANGED application

\* `await req.json()` settles; validateRequiredFields(requestData, ['image'])
BodyRead(r) ==
  /\ pc[r] = "read_body"
  /\ LET b == req[r].body
         parsed == IF b.kind = "json" THEN Return(b.value) ELSE Throw(MsgBadJson)
         validationError == IF parsed.kind = "throw" THEN parsed
                            ELSE validateRequiredFields(parsed.value, <<ImageField>>)
     IN IF validationError.kind = "throw"
        THEN HandlerCatch(r, validationError.message)
        ELSE /\ IF Truthy(validationError.value)
                THEN Respond(r, errorResponse(validationError.value.v, 400))
                ELSE Goto(r, "analyze")
             /\ UNCHANGED log
  /\ UNCHANGED <<apiKey, req, ai, data, st, nearby, health_analyses, specific_analyses,
                 nextId, calls>>
  /\ UNCHANGED application

\* analyzeImage is called: the API key is read; without it the function
\* returns through its catch clause, otherwise it awaits the fetch
AnalyzeImageCall(r) ==
  /\ pc[r] = "analyze"
  /\ LET key == analyzeImageKey(apiKey) IN
       IF key.kind = "throw"
       THEN /\ ai' = [ai EXCEPT ![r] = analyzeImageCatch(key)]
            /\ log' = [log EXCEPT ![r] = Append(@, "analyzeImage")]
            /\ calls' = [calls EXCEPT ![r] = Append(@, "analyzeImage")]
            /\ Goto(r, "analyzed")
       ELSE /\ calls' = [calls EXCEPT ![r] = @ \o <<"analyzeImage", "fetch">>]
            /\ Goto(r, "fetching")
            /\ UNCHANGED <<ai, log>>
  /\ UNCHANGED <<apiKey, req, data, st, nearby, health_analyses, specific_analyses, nextId>>
  /\ UNCHANGED application

\* variant: a failed call of the vision model is made again
afterAnalyzeImageCatch_retry == "analyze"

\* variant: analyzeImage has no catch clause around the fetch and the
\* rejection ends the handler where no clause answers the request
afterAnalyzeImageCatch_unhandled == "unhandled"

\* where the handler goes on after the catch clause of analyzeImage (lines
\* 130-139): the clause returns the failure and `await analyzeImage(...)`
\* settles; the call is not made again
afterAnalyzeImageCatch == "analyzed"

\* the fetch settles
FetchReturns(r, outcomes) ==
  /\ pc[r] = "fetching"
  /\ \E res \in outcomes :
       LET fetched == analyzeImageFetch(res) IN
         IF fetched.kind = "throw"
         THEN /\ ai' = [ai EXCEPT ![r] = analyzeImageCatch(fetched)]
              /\ log' = [log EXCEPT ![r] = Append(@, "analyzeImage")]
              /\ Goto(r, afterAnalyzeImageCatch)
         ELSE /\ Goto(r, "decoding")
              /\ UNCHANGED <<ai, log>>
  /\ UNCHANGED <<apiKey, req, data, st, nearby, health_analyses, specific_analyses,
                 nextId, calls>>
  /\ UNCHANGED application

\* response.json() settles and analyzeImage runs to its return
JsonReturns(r, bodies) ==
  /\ pc[r] = "decoding"
  /\ \E decoded \in bodies :
       LET result == analyzeImageResult(decoded) IN
         /\ ai' = [ai EXCEPT ![r] = analyzeImageCatch(result)]
         /\ log' = [log EXCEPT ![r] =
                      IF result.kind = "throw" THEN Append(@, "analyzeImage") ELSE @]
  /\ Goto(r, "analyzed")
  /\ UNCHANGED <<apiKey, req, data, st, nearby, health_analyses, specific_analyses,
                 nextId, calls>>
  /\ UNCHANGED application

\* the response objects of the handlers that hand on the text of the
\* analysis, for the texts the vision model returns here, computed once
AssembledResponses ==
  {[handler |-> h, analysisText |-> Str(c), response |-> assembleResponse(h, Str(c))] :
     h \in {handler \in Handlers : checksSuccess(handler)}, c \in Contents}

\* assembleResponse, looked up where it has been computed
assembledResponse(h, analysisText) ==
  IF \E e \in AssembledResponses : e.handler = h /\ e.analysisText = analysisText
  THEN (CHOOSE e \in AssembledResponses :
          e.handler = h /\ e.analysisText = analysisText).response
  ELSE assembleResponse(h, analysisText)

\* `await analyzeImage(...)` settles: the success test (absent from the skin
\* handler), parseAnalysisResults and the extractors, the userId test and
\* the call of storeAnalysisResults up to its first await
AfterAnalyze(r) ==
  /\ pc[r] = "analyzed"
  /\ LET h == req[r].handler
         requestData == req[r].body.value.v
         analysisResult == ai[r].value
         analysisText == IF checksSuccess(h) THEN analysisResult.v.text ELSE analysisResult
         assembled == assembledResponse(h, analysisText)
         parseLog == IF parseAnalysisResultsCatch(analysisText)
                     THEN <<"parseAnalysisResults">> ELSE <<>>
     IN IF ai[r].kind = "throw"
        THEN HandlerCatch(r, ai[r].message) /\ UNCHANGED <<data, calls>>
        ELSE IF checksSuccess(h) /\ ~analysisResult.v.success
        THEN /\ Respond(r, errorResponse(unablePrefix(h) \o analysisResult.v.text.v, 400))
             /\ UNCHANGED <<data, log, calls>>
        ELSE IF assembled.kind = "throw"
        THEN /\ Respond(r, errorResponse(catchPrefix(h) \o assembled.message, 500))
             /\ log' = [log EXCEPT ![r] = @ \o parseLog \o <<h>>]
             /\ UNCHANGED <<data, calls>>
        ELSE /\ data' = [data EXCEPT ![r] = assembled.value]
             /\ log' = [log EXCEPT ![r] = @ \o parseLog]
             /\ IF Truthy(requestData.userId)
                THEN /\ Goto(r, "base_insert")
                     /\ calls' = [calls EXCEPT ![r] = Append(@, "storeAnalysisResults")]
                ELSE /\ Respond(r, successResponse(assembled.value))
                     /\ UNCHANGED calls
  /\ UNCHANGED <<apiKey, req, ai, st, nearby, health_analyses, specific_analyses, nextId>>
  /\ UNCHANGED application

(***************************************************************************)
(* _shared/supabase.ts : storeAnalysisResults, findNearbyProviders         *)
(***************************************************************************)
\* `a || b`
OrElse(a, b) == IF Truthy(a) THEN a ELSE b

\* the row sent to health_analyses, lines 60-67 (the id is the store's)
baseAnalysisData(type, analysisData, userId) ==
  [user_id |-> OrElse(userId, Null),
   analysis_type |-> type,
   raw_analysis |-> OrElse(analysisData.rawAnalysis, Str(<<>>)),
   concerns |-> OrElse(analysisData.concerns, Arr(<<>>)),
   recommendations |-> OrElse(analysisData.recommendations, Arr(<<>>))]

\* variant: the vitamins are handed on as they are
storedVitamins_asIs(vitamins) == vitamins

\* `analysisData.nutritionalInfo?.vitamins || {}`, line 140
storedVitamins(vitamins) == OrElse(vitamins, Obj(<<>>))

\* prepareSpecificData, lines 107-151 (the skin case is not reached: the
\* skin handler does not get to storeAnalysisResults)
prepareSpecificData(type, analysisData) ==
  CASE type = "dental" ->
         [dental_issues |-> OrElse(analysisData.dentalIssues, Arr(<<>>)),
          oral_hygiene_score |-> analysisData.oralHygieneScore,
          dentist_recommendation |-> OrElse(analysisData.dentistRecommended, Bool(FALSE))]
    [] type = "posture" ->
         [posture_issues |-> OrElse(analysisData.postureIssues, Arr(<<>>)),
          posture_score |-> analysisData.postureScore,
          exercise_recommendations |->
            OrElse(analysisData.exerciseRecommendations, Arr(<<>>))]
    [] type = "nutrition" ->
         [food_items |-> OrElse(analysisData.foodItems, Arr(<<>>)),
          calories |-> analysisData.nutritionalInfo.v.calories,
          protein |-> analysisData.nutritionalInfo.v.protein,
          carbs |-> analysisData.nutritionalInfo.v.carbs,
          fat |-> analysisData.nutritionalInfo.v.fat,
          fiber |-> analysisData.nutritionalInfo.v.fiber,
          health_score |-> analysisData.healthScore,
          vitamins |-> storedVitamins(analysisData.nutritionalInfo.v.vitamins)]
    [] type = "stool" ->
         [stool_type |-> analysisData.stoolType,
          abnormalities |-> OrElse(analysisData.abnormalities, Arr(<<>>)),
          hydration_indicator |-> analysisData.hydrationIndicator,
          doctor_recommendation |->
            OrElse(analysisData.doctorConsultationRecommended, Bool(FALSE))]

\* the row an insert creates from the object it is given: a property whose
\* value is undefined is not in the JSON body of the request, and the
\* columns that can be left out so (the scores, the Bristol type, the
\* hydration level, the nutrition numbers) have no DEFAULT and become NULL
insertedRow(values) ==
  [column \in DOMAIN values |->
     IF values[column] = Undefined THEN Null ELSE values[column]]

\* the catch clause of storeAnalysisResults, lines 100-103
storeAnalysisResultsCatch(outcome) ==
  IF outcome.kind = "throw" THEN Return(Null) ELSE outcome

\* lines 76-79 on the settled base insert: an error or no data returns null
baseInsertResult(out, id) ==
  CASE out = "ok" -> Return(Uuid(id))
    [] out \in {"error", "nodata"} -> Return(Null)
    [] out = "throw" -> Throw(<<"i","n","s","e","r","t"," ","r","e","j","e","c","t","e","d">>)

\* variant: the id returned is the one of the latest base insert of any
\* call, as if it were kept in a variable of the module
specificInsertResult_latestId(out, baseData) ==
  CASE out = "ok" -> Return(Obj([id |-> Uuid(nextId)]))
    [] out = "error" -> Return(Str(<<"d","e","l","e","t","e">>))
    [] out = "throw" -> Throw(<<"i","n","s","e","r","t"," ","r","e","j","e","c","t","e","d">>)

\* variant: `return null` is missing from the specificError branch
specificInsertResult_idOnError(out, baseData) ==
  CASE out \in {"ok", "error"} -> Return(Obj([id |-> baseData]))
    [] out = "throw" -> Throw(<<"i","n","s","e","r","t"," ","r","e","j","e","c","t","e","d">>)

\* lines 92-99 on the settled domain-specific insert: "delete" stands for
\* the branch that goes on to the compensating delete
specificInsertResult(out, baseData) ==
  CASE out = "ok" -> Return(Obj([id |-> baseData]))
    [] out = "error" -> Return(Str(<<"d","e","l","e","t","e">>))
    [] out = "throw" -> Throw(<<"i","n","s","e","r","t"," ","r","e","j","e","c","t","e","d">>)

\* lines 95-96 on the settled delete: its result is not looked at
deleteResult(out) ==
  CASE out \in {"ok", "error"} -> Return(Null)
    [] out = "throw" -> Throw(<<"d","e","l","e","t","e"," ","r","e","j","e","c","t","e","d">>)

\* health_analyses.id: `UUID PRIMARY KEY DEFAULT uuid_generate_v4()`, a
\* value no earlier row has; n is the number of ids generated so far
generateId(n) == n + 1

\* variant: the delete has no filter on the id
deleteMatches_any(row, baseData) == TRUE

\* the filter of the compensating delete: `.eq('id', baseData.id)`
deleteMatches(row, baseData) == row.id = baseData.v

\* the base insert settles: the store generates the id of the new row,
\* which is the table's primary key
BaseInsertReturns(r) ==
  /\ pc[r] = "base_insert"
  /\ \E out \in BaseInsertOutcomes :
       LET id == generateId(nextId)
           row == baseAnalysisData(analysisType(req[r].handler), data[r],
                                   req[r].body.value.v.userId)
           result == baseInsertResult(out, id)
       IN /\ out = "ok" => \A other \in health_analyses : other.id # id
          /\ IF out = "ok"
             THEN /\ health_analyses' = health_analyses \cup {[id |-> id] @@ row}
                  /\ nextId' = id
             ELSE UNCHANGED <<health_analyses, nextId>>
          /\ IF result.kind = "return" /\ Truthy(result.value)
             THEN /\ st' = [st EXCEPT ![r].baseData = result.value]
                  /\ Goto(r, "specific_insert")
             ELSE /\ st' = [st EXCEPT ![r].result = storeAnalysisResultsCatch(result)]
                  /\ Goto(r, "stored")
  /\ UNCHANGED <<apiKey, req, ai, data, nearby, specific_analyses, calls, log>>
  /\ UNCHANGED application

\* the insert into the domain-specific table settles; the id is the table's
\* primary key and references health_analyses(id)
SpecificInsertReturns(r) ==
  /\ pc[r] = "specific_insert"
  /\ \E out \in SpecificInsertOutcomes :
       LET baseData == st[r].baseData
           specificAnalysisData ==
             [table |-> specificTableName(req[r].handler), id |-> baseData.v]
               @@ insertedRow(prepareSpecificData(analysisType(req[r].handler), data[r]))
           result == specificInsertResult(out, baseData)
       IN /\ out = "ok" =>
               /\ \E row \in health_analyses : row.id = baseData.v
               /\ \A s \in specific_analyses :
                    s.table = specificTableName(req[r].handler) => s.id # baseData.v
          /\ specific_analyses' =
               IF out = "ok"
               THEN specific_analyses \cup {specificAnalysisData}
               ELSE specific_analyses
          /\ IF result = Return(Str(<<"d","e","l","e","t","e">>))
             THEN /\ Goto(r, "deleting")
                  /\ UNCHANGED st
             ELSE /\ st' = [st EXCEPT ![r].result = storeAnalysisResultsCatch(result)]
                  /\ Goto(r, "stored")
  /\ UNCHANGED <<apiKey, req, ai, data, nearby, health_analyses, nextId, calls, log>>
  /\ UNCHANGED application

\* the compensating delete settles (ON DELETE CASCADE removes the
\* domain-specific row of the same id)
DeleteReturns(r) ==
  /\ pc[r] = "deleting"
  /\ \E out \in DeleteOutcomes :
       LET deleted == {row \in health_analyses : deleteMatches(row, st[r].baseData)} IN
       /\ IF out = "ok"
          THEN /\ health_analyses' = health_analyses \ deleted
               /\ specific_analyses' =
                    {s \in specific_analyses : \A row \in deleted : s.id # row.id}
          ELSE UNCHANGED <<health_analyses, specific_analyses>>
       /\ st' = [st EXCEPT ![r].result = storeAnalysisResultsCatch(deleteResult(out))]
  /\ Goto(r, "stored")
  /\ UNCHANGED <<apiKey, req, ai, data, nearby, nextId, calls, log>>
  /\ UNCHANGED application

\* lines 159-188 on the settled provider query
findNearbyProvidersResult(out, spec) ==
  CASE out = "rows" -> Return(Arr(<<[id |-> "p1", specialty |-> spec]>>))
    [] out = "empty" -> Return(Arr(<<>>))
    [] out \in {"error", "nodata"} -> Return(Null)
    [] out = "throw" -> Throw(<<"q","u","e","r","y"," ","r","e","j","e","c","t","e","d">>)

\* the catch clause of findNearbyProviders, lines 185-188
findNearbyProvidersCatch(outcome) ==
  IF outcome.kind = "throw" THEN Return(Null) ELSE outcome

\* the handler's inner catch clause: logError(<handler>-db, dbError); the
\* request goes on to the success response
DbCatch(r) ==
  /\ log' = [log EXCEPT ![r] = Append(@, dbLogName(req[r].handler))]
  /\ Respond(r, successResponse(data[r]))
  /\ UNCHANGED <<data, calls>>

\* `await storeAnalysisResults(...)` settles: the id is copied into the
\* response, then the lookup is started if location and findProviders are set
AfterStore(r) ==
  /\ pc[r] = "stored"
  /\ LET storageResult == st[r].result
         requestData == req[r].body.value.v
         withId == IF Truthy(storageResult.value)
                   THEN [data[r] EXCEPT !.id = storageResult.value.v.id]
                   ELSE data[r]
     IN IF storageResult.kind = "throw" THEN DbCatch(r)
        ELSE /\ data' = [data EXCEPT ![r] = withId]
             /\ UNCHANGED log
             /\ IF Truthy(requestData.location) /\ Truthy(requestData.findProviders)
                THEN /\ calls' = [calls EXCEPT ![r] = Append(@, "findNearbyProviders")]
                     /\ Goto(r, "lookup")
                ELSE /\ Respond(r, successResponse(withId))
                     /\ UNCHANGED calls
  /\ UNCHANGED <<apiKey, req, ai, st, nearby, health_analyses, specific_analyses, nextId>>
  /\ UNCHANGED application

\* the provider query settles and findNearbyProviders returns
LookupReturns(r, outcomes) ==
  /\ pc[r] = "lookup"
  /\ \E out \in outcomes :
       nearby' = [nearby EXCEPT ![r] = findNearbyProvidersCatch(
                    findNearbyProvidersResult(out, specialty(req[r].handler)))]
  /\ Goto(r, "looked_up")
  /\ UNCHANGED <<apiKey, req, ai, data, st, health_analyses, specific_analyses,
                 nextId, calls, log>>
  /\ UNCHANGED application

\* `await findNearbyProviders(...)` settles: a list that is not null is
\* copied into the response and the success response is sent
AfterLookup(r) ==
  /\ pc[r] = "looked_up"
  /\ LET nearbyProviders == nearby[r]
         withProviders == IF Truthy(nearbyProviders.value)
                          THEN [data[r] EXCEPT !.nearbyProviders = nearbyProviders.value]
                          ELSE data[r]
     IN IF nearbyProviders.kind = "throw" THEN DbCatch(r)
        ELSE /\ data' = [data EXCEPT ![r] = withProviders]
             /\ Respond(r, successResponse(withProviders))
             /\ UNCHANGED <<log, calls>>
  /\ UNCHANGED <<apiKey, req, ai, st, nearby, health_analyses, specific_analyses, nextId>>
  /\ UNCHANGED application

(***************************************************************************)
(* Specifications                                                          *)
(***************************************************************************)
\* the steps of a request after its arrival; the three sets are the ways
\* the fetch, response.json() and the provider query may settle
Step(r, fetches, decodings, lookups) ==
  \/ BodyRead(r)
  \/ AnalyzeImageCall(r)
  \/ FetchReturns(r, fetches)
  \/ JsonReturns(r, decodings)
  \/ AfterAnalyze(r)
  \/ BaseInsertReturns(r)
  \/ SpecificInsertReturns(r)
  \/ DeleteReturns(r)
  \/ AfterStore(r)
  \/ LookupReturns(r, lookups)
  \/ AfterLookup(r)

\* one request, every handler, method and body, every failure of the
\* vision call and of the store
Next ==
  \/ Receive(1, Handlers, Methods, Bodies)
  \/ Step(1, FetchOutcomes, DecodedBodies, LookupOutcomes)

Spec == Init /\ [][Next]_vars

\* one request whose handler is resumed whenever the call it awaits has
\* settled: each awaited call (req.json(), fetch, response.json(), the
\* inserts, the delete, the provider query) eventually returns or fails, and
\* the runtime then runs the continuation.  The arrival of the request is
\* not required.
SpecLive ==
  Spec /\ WF_vars(Step(1, FetchOutcomes, DecodedBodies, LookupOutcomes))

\* NumClients requests in flight at once, with the API key configured and
\* a vision call that answers; every failure of the store
InitConc ==
  /\ Init
  /\ apiKey # Undefined

NextConc ==
  \E r \in Clients :
    \/ Receive(r, ConcHandlers, {"POST"}, ConcBodies)
    \/ Step(r, ConcFetchOutcomes, ConcDecodedBodies, ConcLookupOutcomes)

SpecConc == InitConc /\ [][NextConc]_vars

(***************************************************************************)
(* The parser, the extractors and the heuristics applied on their own      *)
(***************************************************************************)
Apply(name, result) ==
  /\ called = "none"
  /\ called' = name
  /\ returned' = result
  /\ UNCHANGED <<apiKey, pc, req, ai, data, st, nearby, health_analyses,
                 specific_analyses, nextId, responses, calls, log, args>>

\* analyzeImage from the decoded response on, the text being the content of
\* the first choice
CallAnalyzeImage ==
  Apply("analyzeImage",
        analyzeImageCatch(analyzeImageResult(
          [kind |-> "json", choices |-> Arr(<<[content |-> args.text]>>)])))

CallParseAnalysisResults ==
  LET parsedResults == parseAnalysisResults(args.text)
  IN Apply("parseAnalysisResults",
           Return([analysis |-> parsedResults["analysis"],
                   concerns |-> parsedResults["concerns"],
                   recommendations |-> parsedResults["recommendations"]]))

CallExtractOralHygieneScore ==
  Apply("extractOralHygieneScore", Return(extractOralHygieneScore(args.text)))

CallExtractSeverityScore ==
  Apply("extractSeverityScore", Return(extractSeverityScore(args.text)))

CallExtractPostureScore ==
  Apply("extractPostureScore", Return(extractPostureScore(args.text)))

CallExtractHealthScore ==
  Apply("extractHealthScore", Return(extractHealthScore(args.text)))

CallExtractBristolType ==
  Apply("extractBristolType", Return(extractBristolType(args.text)))

CallShouldRecommendDentist ==
  Apply("shouldRecommendDentist", shouldRecommendDentist(args.text, args.concerns))

CallShouldRecommendDoctor ==
  Apply("shouldRecommendDoctor", shouldRecommendDoctor(args.text, args.concerns))

\* one function applied once to one text
InitApply ==
  /\ apiKey = Undefined
  /\ NoRequests
  /\ args \in ApplicationArguments
  /\ called = "none"
  /\ returned = Undefined

NextApply ==
  \/ CallAnalyzeImage
  \/ CallParseAnalysisResults
  \/ CallExtractOralHygieneScore
  \/ CallExtractSeverityScore
  \/ CallExtractPostureScore
  \/ CallExtractHealthScore
  \/ CallExtractBristolType
  \/ CallShouldRecommendDentist
  \/ CallShouldRecommendDoctor

SpecApply == InitApply /\ [][NextApply]_vars

(***************************************************************************)
(* The list extractors and the hydration heuristic applied on their own    *)
(***************************************************************************)
CallExtractDentalIssues ==
  Apply("extractDentalIssues", Return(extractDentalIssues(args.text)))

CallExtractSkinConditions ==
  Apply("extractSkinConditions", Return(extractSkinConditions(args.text)))

CallExtractPostureIssues ==
  Apply("extractPostureIssues", Return(extractPostureIssues(args.text)))

CallExtractAbnormalities ==
  Apply("extractAbnormalities", Return(extractAbnormalities(args.text)))

CallExtractExerciseRecommendations ==
  Apply("extractExerciseRecommendations", Return(extractExerciseRecommendations(args.text)))

CallExtractFoodItems ==
  Apply("extractFoodItems", Return(extractFoodItems(args.text)))

CallExtractHydrationLevel ==
  Apply("extractHydrationLevel", Return(extractHydrationLevel(args.text)))

\* one extractor applied once to one text
InitExtract ==
  /\ apiKey = Undefined
  /\ NoRequests
  /\ args \in ExtractionArguments
  /\ called = "none"
  /\ returned = Undefined

NextExtract ==
  \/ CallExtractDentalIssues
  \/ CallExtractSkinConditions
  \/ CallExtractPostureIssues
  \/ CallExtractAbnormalities
  \/ CallExtractExerciseRecommendations
  \/ CallExtractFoodItems
  \/ CallExtractHydrationLevel

SpecExtract == InitExtract /\ [][NextExtract]_vars

(***************************************************************************)
(* Vocabulary of the properties                                            *)
(***************************************************************************)
Answered(r) == pc[r] = "done"
LastResponse(r) == responses[r][Len(responses[r])]
Called(r, name) == \E i \in 1..Len(calls[r]) : calls[r][i] = name

\* the parsed body is an object whose image is absent, null or ''
ImageMissing(r) ==
  /\ req[r].method = "POST"
  /\ req[r].body.kind = "json"
  /\ req[r].body.value.t = "object"
  /\ req[r].body.value.v.image \in {Undefined, Null, Str(<<>>)}

AnalysisReturned(r) == ai[r].kind = "return"
AnalysisText(r) == ai[r].value.v.text
AnalysisSucceeded(r) == AnalysisReturned(r) /\ ai[r].value.v.success

\* the adapter returned success=false with the model's own text
SoftFailure(r) ==
  /\ AnalysisReturned(r)
  /\ ~ai[r].value.v.success
  /\ AnalysisText(r).v \in Contents

\* the adapter failed on the missing key, the HTTP status or the choice list
HardFailureTexts ==
  {MsgNoApiKey, MsgNoChoices}
  \cup {MsgApiError(res.status, res.text) : res \in {o \in FetchOutcomes : o.kind = "response" /\ ~o.ok}}
HardFailure(r) ==
  /\ AnalysisReturned(r)
  /\ ~ai[r].value.v.success
  /\ AnalysisText(r).v \in HardFailureTexts

StoreReturned(r) == st[r].result.kind = "return"
StoreReturnedId(r) == StoreReturned(r) /\ st[r].result.value # Null
LookupReturned(r) == nearby[r].kind = "return"
BaseRowOf(r) == {row \in health_analyses : st[r].baseData = Uuid(row.id)}
SpecificRowOf(r) == {s \in specific_analyses : st[r].baseData = Uuid(s.id)}

(***************************************************************************)
(* Properties                                                              *)
(***************************************************************************)
\* C1: a POST whose body has image absent, null or '' is answered with
\* status 400 and {success: false, error: "Missing required field: image"},
\* and for that request neither the vision model, nor the store, nor the
\* provider lookup is called.
C1_MissingImageRejected ==
  \A r \in Clients :
    ImageMissing(r) =>
      /\ calls[r] = <<>>
      /\ pc[r] \in {"read_body", "done"}
      /\ Answered(r) =>
            responses[r] = <<[status |-> 400, success |-> FALSE,
                              error |-> <<"M","i","s","s","i","n","g"," ","r","e","q","u","i","r","e","d"," ","f","i","e","l","d",":"," ","i","m","a","g","e">>,
                              data |-> Undefined]>>

C1_Witness ==
  \E r \in Clients :
    /\ ImageMissing(r)
    /\ req[r].body.value.v.image = Str(<<>>)
    /\ req[r].body.value.v.userId = Str(User1)
    /\ Answered(r)
    /\ LastResponse(r).status = 400

\* C2: in each of the five handlers a soft failure of the vision adapter is
\* answered with status 400 and an error message that embeds the model's
\* text, and storeAnalysisResults is not called.
C2_SoftFailureIs400 ==
  \A r \in Clients :
    (SoftFailure(r) /\ Answered(r)) =>
      /\ LastResponse(r).status = 400
      /\ includes(LastResponse(r).error, AnalysisText(r).v)
      /\ ~Called(r, "storeAnalysisResults")

\* C3: a hard failure of the vision call (no API key, non-success HTTP
\* status, empty or absent choice list) is answered with a 5xx status,
\* never with 400.
C3_HardFailureIs5xx ==
  \A r \in Clients :
    (HardFailure(r) /\ Answered(r)) =>
      /\ LastResponse(r).status >= 500
      /\ LastResponse(r).status <= 599

\* C4: in the dental, posture, nutrition and stool handlers, once the
\* vision adapter has returned success=true the only response is a 200
\* success response that carries the analysis, whatever extraction,
\* persistence and provider lookup did.
C4_SuccessAlways200 ==
  \A r \in Clients :
    (req[r].handler \in {"dental-check", "posture-check", "nutri-snap", "poop-health"}
       /\ AnalysisSucceeded(r)) =>
      /\ Len(responses[r]) <= 1
      /\ Answered(r) =>
            /\ Len(responses[r]) = 1
            /\ LastResponse(r).status = 200
            /\ LastResponse(r).success
            /\ LastResponse(r).data # Undefined
            /\ LastResponse(r).data.analysis = AnalysisText(r)
            /\ LastResponse(r).data.rawAnalysis = AnalysisText(r)

C4_Witness ==
  \E r \in Clients :
    /\ req[r].handler = "nutri-snap"
    /\ AnalysisSucceeded(r)
    /\ Answered(r)
    /\ st[r].baseData # Null
    /\ st[r].result = Return(Null)
    /\ nearby[r] = Return(Null)
    /\ LastResponse(r).status = 200

\* a success response that carries response data
SuccessResponse(r) ==
  /\ Answered(r)
  /\ LastResponse(r).success
  /\ LastResponse(r).data # Undefined

\* C5: in a success response `id` is present exactly when
\* storeAnalysisResults was called and returned an id, which then is the id
\* of a base row and of a domain-specific row; `nearbyProviders` is present
\* exactly when the lookup was performed and returned a list that is not null.
C5_IdAndProvidersIff ==
  \A r \in Clients :
    SuccessResponse(r) =>
      LET d == LastResponse(r).data IN
        /\ (d.id # Undefined) = StoreReturnedId(r)
        /\ d.id # Undefined =>
              /\ Called(r, "storeAnalysisResults")
              /\ d.id = st[r].baseData
              /\ BaseRowOf(r) # {}
              /\ SpecificRowOf(r) # {}
        /\ (d.nearbyProviders # Undefined) = (LookupReturned(r) /\ nearby[r].value # Null)
        /\ d.nearbyProviders # Undefined =>
              /\ Called(r, "findNearbyProviders")
              /\ d.nearbyProviders = nearby[r].value

C5_Witness ==
  \E r \in Clients :
    /\ SuccessResponse(r)
    /\ st[r].baseData # Null
    /\ st[r].result = Return(Null)
    /\ LastResponse(r).data.id = Undefined
    /\ nearby[r] = Return(Arr(<<>>))
    /\ LastResponse(r).data.nearbyProviders = Arr(<<>>)

\* C6: after a successful analysis persistence is attempted exactly when
\* the request carries a userId, and the provider lookup exactly when
\* findProviders and location are set, whether or not userId is present.
C6_LookupIndependentOfUserId ==
  \A r \in Clients :
    SuccessResponse(r) =>
      LET requestData == req[r].body.value.v IN
        /\ Called(r, "storeAnalysisResults") = Truthy(requestData.userId)
        /\ Called(r, "findNearbyProviders") =
              (Truthy(requestData.findProviders) /\ Truthy(requestData.location))

\* C7: after storeAnalysisResults has returned, either it returned an id
\* and the base row and the domain-specific row of that id exist, or it
\* returned null and no base row and no domain-specific row of the call
\* remains.
C7_StoreAllOrNothing ==
  \A r \in Clients :
    StoreReturned(r) =>
      \/ /\ st[r].result.value = Obj([id |-> st[r].baseData])
         /\ BaseRowOf(r) # {}
         /\ SpecificRowOf(r) # {}
      \/ /\ st[r].result.value = Null
         /\ BaseRowOf(r) = {}
         /\ SpecificRowOf(r) = {}

\* C8: a request that failed validation or analysis has no record; a base
\* row never changes while it exists; a base row disappears only in the
\* compensating delete of the call that inserted it, which is reached only
\* after that call's domain-specific insert reported an error.
C8_NoRecordOnFailure ==
  \A r \in Clients :
    (ImageMissing(r) \/ (AnalysisReturned(r) /\ ~AnalysisSucceeded(r))) =>
      /\ st[r].baseData = Null
      /\ ~Called(r, "storeAnalysisResults")

C8_RowHasInserter ==
  \A row \in health_analyses : \E r \in Clients : st[r].baseData = Uuid(row.id)

C8_RowNeverUpdated ==
  \A row \in health_analyses :
    \/ row \in health_analyses'
    \/ \A other \in health_analyses' : other.id # row.id

C8_DeletedOnlyByInserter ==
  \A row \in health_analyses \ health_analyses' :
    \E r \in Clients :
      /\ pc[r] = "deleting"
      /\ pc'[r] = "stored"
      /\ st[r].baseData = Uuid(row.id)

C8_RecordLifecycle ==
  /\ [](C8_NoRecordOnFailure /\ C8_RowHasInserter)
  /\ [][C8_RowNeverUpdated /\ C8_DeletedOnlyByInserter]_vars

C8_Witness ==
  \E r, q \in Clients :
    /\ r # q
    /\ pc[r] = "stored"
    /\ st[r].baseData # Null
    /\ BaseRowOf(r) = {}
    /\ BaseRowOf(q) # {}

\* the response a request gets from its own inputs and collaborator results
OwnResponse(r) ==
  successResponse([analysis |-> AnalysisText(r),
                   rawAnalysis |-> AnalysisText(r),
                   id |-> st[r].baseData,
                   nearbyProviders |-> IF LookupReturned(r) /\ nearby[r].value # Null
                                       THEN nearby[r].value ELSE Undefined]
                  @@ assembledResponse(req[r].handler, AnalysisText(r)).value)

BothStored(r, q) ==
  /\ r # q
  /\ Answered(r) /\ Answered(q)
  /\ req[r].body = req[q].body
  /\ StoreReturnedId(r) /\ StoreReturnedId(q)

\* C9: two requests with the same body and userId whose store calls all
\* succeed leave two base rows with distinct ids, and each response is the
\* one its own request determines, with the id of its own row.
C9_DuplicateSubmissions ==
  \A r, q \in Clients :
    BothStored(r, q) =>
      /\ st[r].baseData # st[q].baseData
      /\ Cardinality(BaseRowOf(r)) = 1
      /\ Cardinality(BaseRowOf(q)) = 1
      /\ BaseRowOf(r) # BaseRowOf(q)
      /\ responses[r] = <<OwnResponse(r)>>
      /\ responses[q] = <<OwnResponse(q)>>

C9_Witness ==
  \E r, q \in Clients :
    /\ BothStored(r, q)
    /\ req[r].handler = req[q].handler
    /\ LastResponse(r).data.id # LastResponse(q).data.id

\* C10: analyzeImage never rejects: however the key lookup, the fetch and
\* the decoding end, the handler's await settles with an object {text, success}.
C10_AnalyzeImageNeverThrows ==
  \A r \in Clients :
    /\ ai[r].kind \in {"none", "return"}
    /\ pc[r] = "analyzed" => ai[r].kind = "return"
    /\ ai[r].kind = "return" =>
          /\ ai[r].value.t = "object"
          /\ DOMAIN ai[r].value.v = {"text", "success"}
          /\ ai[r].value.v.text.t = "string"
          /\ ai[r].value.v.success \in BOOLEAN

C10_Witness ==
  \E r \in Clients :
    /\ pc[r] = "analyzed"
    /\ ai[r] = Return(Obj([text |-> Str(MsgNoToLowerCase), success |-> FALSE]))

\* the adapter returned success=false, whatever the reason
AnalysisFailed(r) == AnalysisReturned(r) /\ ~ai[r].value.v.success
Logged(r, name) == \E i \in 1..Len(log[r]) : log[r][i] = name

\* C11: on every path on which analyzeImage returns a failure (refusal
\* phrasing matched, empty choice list, non-success HTTP status, missing API
\* key, thrown exception) an error log entry of analyzeImage has been
\* emitted by the time it returns.
C11_FailureIsLogged ==
  \A r \in Clients : AnalysisFailed(r) => Logged(r, "analyzeImage")

(***************************************************************************)
(* Properties of the functions applied on their own                        *)
(***************************************************************************)
Applied(name) == called = name /\ args.text.t = "string"
Mentions(text, phrases) == \E n \in 1..Len(phrases) : includes(toLowerCase(text), phrases[n])

\* C12: when the transport call succeeds with a non-empty choice list,
\* analyzeImage returns success=false if and only if the lower-cased content
\* contains one of the listed refusal patterns, and in both cases the text
\* it returns is the model's content unchanged.
C12_RefusalIffPattern ==
  Applied("analyzeImage") =>
    /\ returned.kind = "return"
    /\ returned.value.v.text = args.text
    /\ returned.value.v.success = ~Mentions(args.text.v, unableToAnalyzePatterns)

C12_Witness ==
  /\ Applied("analyzeImage")
  /\ args.text.v = <<"S","o","r","r","y",","," ","I","M","A","G","E"," ","I","S"," ","T","O","O"," ","B","L","U","R","R","Y",".">>
  /\ ~returned.value.v.success
  /\ returned.value.v.text = args.text

\* the result is an array of strings made of the characters of the text
IsArrayOfStrings(list, text) ==
  /\ DOMAIN list = 1..Len(list)
  /\ \A n \in 1..Len(list) :
       \A j \in 1..Len(list[n]) : \E i \in 1..Len(text) : text[i] = list[n][j]

ConcernsHeaders == <<<<"c","o","n","c","e","r","n","s">>, <<"p","o","t","e","n","t","i","a","l"," ","c","o","n","c","e","r","n","s">>, <<"i","s","s","u","e","s">>, <<"p","o","t","e","n","t","i","a","l"," ","i","s","s","u","e","s">>>>
RecommendationsHeaders ==
  <<<<"r","e","c","o","m","m","e","n","d","a","t","i","o","n","s">>, <<"s","u","g","g","e","s","t","e","d"," ","a","c","t","i","o","n","s">>, <<"a","d","v","i","c","e">>, <<"s","u","g","g","e","s","t","i","o","n","s">>>>

\* C13: parseAnalysisResults is total: for every input string it returns
\* without throwing, its analysis field is the input text unchanged, and
\* concerns and recommendations are arrays, empty when the text has no
\* header of their section.
C13_ParseIsTotal ==
  Applied("parseAnalysisResults") =>
    /\ returned.kind = "return"
    /\ returned.value.analysis = args.text
    /\ IsArrayOfStrings(returned.value.concerns, args.text.v)
    /\ IsArrayOfStrings(returned.value.recommendations, args.text.v)
    /\ ~Mentions(args.text.v, ConcernsHeaders) => returned.value.concerns = <<>>
    /\ ~Mentions(args.text.v, RecommendationsHeaders) => returned.value.recommendations = <<>>

C13_Witness ==
  /\ Applied("parseAnalysisResults")
  /\ args.text.v = <<"C","o","n","c","e","r","n","s",":","\n","-"," "," ","P","l","a","q","u","e"," ","b","u","i","l","d","u","p"," ","\n","\n">>
  /\ returned.value.analysis = args.text
  /\ returned.value.concerns = <<<<"P","l","a","q","u","e"," ","b","u","i","l","d","u","p">>>>
  /\ returned.value.recommendations = <<>>

\* C14: for a text with a well-formed "Concerns:" section of bulleted lines
\* and a well-formed "Recommendations:" section of bulleted lines,
\* parseAnalysisResults returns exactly those lines as concerns and as
\* recommendations, in their order, without bullet and surrounding space.
C14_WellFormedSections ==
  (Applied("parseAnalysisResults") /\ args \in WellFormedArguments) =>
    /\ returned.value.concerns = args.concerns
    /\ returned.value.recommendations = args.recommendations

ScenarioA ==
  <<"C","o","n","c","e","r","n","s",":","\n","-"," ","M","i","l","d"," ","g","i","n","g","i","v","i","t","i","s","\n","-"," ","P","l","a","q","u","e"," ","b","u","i","l","d","u","p","\n","\n","R","e","c","o","m","m","e","n","d","a","t","i","o","n","s",":","\n","-"," ","F","l","o","s","s"," ","d","a","i","l","y","\n">>

\* C15: a section that runs to the end of the text is extracted: for the
\* text of scenario A parseAnalysisResults returns the concerns
\* "Mild gingivitis", "Plaque buildup" and the recommendation "Floss daily".
C15_ScenarioA ==
  (Applied("parseAnalysisResults") /\ args.text.v = ScenarioA) =>
    /\ returned.value.concerns = <<<<"M","i","l","d"," ","g","i","n","g","i","v","i","t","i","s">>, <<"P","l","a","q","u","e"," ","b","u","i","l","d","u","p">>>>
    /\ returned.value.recommendations = <<<<"F","l","o","s","s"," ","d","a","i","l","y">>>>

\* C16: for a text in which no concerns header and no recommendations
\* header occurs, parseAnalysisResults returns the text as analysis with
\* empty concerns and empty recommendations.
C16_NoHeaderIdentity ==
  (/\ Applied("parseAnalysisResults")
   /\ ~Mentions(args.text.v, ConcernsHeaders)
   /\ ~Mentions(args.text.v, RecommendationsHeaders)) =>
    returned = Return([analysis |-> args.text, concerns |-> <<>>, recommendations |-> <<>>])

C16_Witness ==
  /\ Applied("parseAnalysisResults")
  /\ args.text.v = <<"-"," "," ","P","l","a","q","u","e"," ","b","u","i","l","d","u","p"," ","\n","-"," "," ","P","l","a","q","u","e"," ","b","u","i","l","d","u","p"," ","\n","\n">>
  /\ returned = Return([analysis |-> args.text, concerns |-> <<>>, recommendations |-> <<>>])

ScoreExtractors ==
  {"extractOralHygieneScore", "extractSeverityScore", "extractPostureScore",
   "extractHealthScore"}

\* a sentence giving the number n under the label the extractor looks for
LabelledNumber(extractor, n) ==
  CASE extractor = "extractOralHygieneScore" ->
         <<"T","h","e"," ","o","r","a","l"," ","h","y","g","i","e","n","e"," ","s","c","o","r","e"," ","o","f"," ">> \o DecimalString(n) \o <<"/","1","0",".">>
    [] extractor = "extractSeverityScore" ->
         <<"T","h","e"," ","s","e","v","e","r","i","t","y"," ","l","e","v","e","l"," ","o","f"," ">> \o DecimalString(n) \o <<"/","1","0",".">>
    [] extractor = "extractPostureScore" ->
         <<"T","h","e"," ","p","o","s","t","u","r","e"," ","s","c","o","r","e"," ","o","f"," ">> \o DecimalString(n) \o <<"/","1","0",".">>
    [] extractor = "extractHealthScore" ->
         <<"T","h","e"," ","h","e","a","l","t","h"," ","s","c","o","r","e"," ","o","f"," ">> \o DecimalString(n) \o <<"/","1","0",".">>
    [] extractor = "extractBristolType" ->
         <<"T","h","e"," ","B","r","i","s","t","o","l"," ","s","t","o","o","l"," ","t","y","p","e",":"," ">> \o DecimalString(n) \o <<".">>

Scale(extractor) == IF extractor = "extractBristolType" THEN 1..7 ELSE 1..10

OccursFirst(text, phrase) ==
  \E i \in 1..(Len(text) - Len(phrase) + 1) :
    /\ SubSeq(text, i, i + Len(phrase) - 1) = phrase
    /\ ~includes(toLowerCase(SubSeq(text, 1, i - 1)), <<"h","y","g","i","e","n","e"," ","s","c","o","r","e">>)

\* C18: extractOralHygieneScore returns N for a text containing "oral
\* hygiene score of N/10" or "oral hygiene score of N out of 10" with N from
\* 1 to 10, and undefined for a text containing "score of 11/10"; of several
\* labelled scores the first one in the text decides.
C18_OralHygieneScore ==
  Applied("extractOralHygieneScore") =>
    /\ \A n \in 1..10 : \A scale \in {<<"/","1","0">>, <<" ","o","u","t"," ","o","f"," ","1","0">>} :
         OccursFirst(args.text.v, <<"o","r","a","l"," ","h","y","g","i","e","n","e"," ","s","c","o","r","e"," ","o","f"," ">> \o DecimalString(n) \o scale)
           => returned.value = Num(n)
    /\ OccursFirst(args.text.v, <<"s","c","o","r","e"," ","o","f"," ","1","1","/","1","0">>) => returned.value = Undefined

C18_Witness ==
  /\ Applied("extractOralHygieneScore")
  /\ args.text.v = <<"A","n"," ","o","r","a","l"," ","h","y","g","i","e","n","e"," ","s","c","o","r","e"," ","o","f"," ","6","/","1","0",","," ","l","a","t","e","r"," ","a"," ","h","y","g","i","e","n","e"," ","s","c","o","r","e"," ","o","f"," ","3"," ","o","u","t"," ","o","f"," ","1","0",".">>
  /\ returned.value = Num(6)

\* C19: for a text containing "Bristol stool type is N" with N from 1 to 7
\* extractBristolType returns N, and for N = 1 and N = 7 shouldRecommendDoctor
\* returns true, also without a doctor keyword or a severe keyword.
C19_BristolWording ==
  \A n \in 1..7 :
    (/\ args.text.t = "string"
     /\ includes(args.text.v, <<"B","r","i","s","t","o","l"," ","s","t","o","o","l"," ","t","y","p","e"," ","i","s"," ">> \o DecimalString(n))) =>
      /\ called = "extractBristolType" => returned.value = Num(n)
      /\ (called = "shouldRecommendDoctor" /\ n \in {1, 7}) => returned.value = Bool(TRUE)

ListExtractors ==
  {"extractDentalIssues", "extractSkinConditions", "extractPostureIssues",
   "extractAbnormalities"}

\* the keyword vocabulary and the header pattern of a list extractor
Vocabulary(extractor) ==
  CASE extractor = "extractDentalIssues" -> dentalKeywords
    [] extractor = "extractSkinConditions" -> skinKeywords
    [] extractor = "extractPostureIssues" -> postureKeywords
    [] extractor = "extractAbnormalities" -> abnormalityKeywords

HeaderPattern(extractor) ==
  CASE extractor = "extractDentalIssues" -> dentalIssuesPattern
    [] extractor = "extractSkinConditions" -> skinConditionsPattern
    [] extractor = "extractPostureIssues" -> postureIssuesPattern
    [] extractor = "extractAbnormalities" -> abnormalitiesPattern

\* the sentences of a text: a sentence ends at a `.`, `!` or `?` that white
\* space follows, or with the text; the next one starts after that white
\* space
EndsSentence(text, j) == j < Len(text) /\ text[j] \in {".", "!", "?"} /\ text[j + 1] \in WhiteSpace
SentenceStarts(text) ==
  {1} \cup {i \in 3..(Len(text) + 1) :
              /\ text[i - 1] \in WhiteSpace
              /\ i > Len(text) \/ text[i] \notin WhiteSpace
              /\ \E p \in 1..(i - 2) :
                   EndsSentence(text, p) /\ \A j \in (p + 1)..(i - 1) : text[j] \in WhiteSpace}
SentenceAt(text, from) ==
  LET ends == {j \in from..Len(text) : EndsSentence(text, j)}
  IN SubSeq(text, from, IF ends = {} THEN Len(text)
                        ELSE CHOOSE j \in ends : \A h \in ends : j <= h)
\* the first sentence of the text that contains the keyword, whatever the
\* case, without the white space around it
FirstSentenceWith(text, keyword) ==
  LET with == {i \in SentenceStarts(text) :
                 includes(toLowerCase(SentenceAt(text, i)), keyword)}
  IN trim(SentenceAt(text, CHOOSE i \in with : \A h \in with : i <= h))

\* C21: for every keyword of its vocabulary that occurs in the text,
\* whatever the case, the list of a list extractor has an entry that contains
\* the keyword; an entry that is not a line of the header section is the
\* first sentence of the text that contains a keyword.
C21_KeywordSentences ==
  (called \in ListExtractors /\ args.text.t = "string") =>
    LET text == args.text.v
        lower == toLowerCase(text)
        keywords == Vocabulary(called)
        section == sectionOf(text, HeaderPattern(called))
        list == returned.value.v
    IN /\ returned.kind = "return"
       /\ \A n \in 1..Len(keywords) :
            includes(lower, keywords[n]) =>
              \E i \in 1..Len(list) : includes(toLowerCase(list[i]), keywords[n])
       /\ \A i \in 1..Len(list) :
            \/ \E j \in 1..Len(section) : section[j] = list[i]
            \/ \E n \in 1..Len(keywords) :
                 /\ includes(lower, keywords[n])
                 /\ list[i] = FirstSentenceWith(text, keywords[n])

C21_Witness ==
  /\ called = "extractDentalIssues"
  /\ args.text = Str(<<"M","i","l","d"," ","p","l","a","q","u","e"," ","a","n","d"," ","a"," ","r","a","s","h"," ","w","i","t","h"," ","m","u","c","u","s","."," ","V","i","s","i","b","l","e"," ","P","L","A","Q","U","E",","," ","K","y","p","h","o","s","i","s"," ","a","n","d"," ","R","a","s","h","!">>)
  /\ returned = Return(Arr(<<<<"M","i","l","d"," ","p","l","a","q","u","e"," ","a","n","d"," ","a"," ","r","a","s","h"," ","w","i","t","h"," ","m","u","c","u","s",".">>>>))

ListValued == ListExtractors \cup {"extractExerciseRecommendations", "extractFoodItems"}

\* the entries in the order the extractor inserted them
Inserted(extractor, text) ==
  CASE extractor \in ListExtractors ->
         pushedIssues(text, HeaderPattern(extractor), Vocabulary(extractor))
    [] extractor = "extractExerciseRecommendations" -> pushedExercises(text)
    [] extractor = "extractFoodItems" -> pushedItems(text)

FirstIndex(list, x) == CHOOSE n \in 1..Len(list) : list[n] = x /\ \A m \in 1..(n - 1) : list[m] # x

\* C22: the list a domain extractor returns is an array, never null or
\* undefined, and empty when nothing was inserted; it holds every inserted
\* entry once, in the order of the first insertions.
C22_ListsDeduplicated ==
  (called \in ListValued) =>
    /\ returned.kind = "return"
    /\ returned.value.t = "array"
    /\ LET list == returned.value.v
           inserted == IF args.text.t = "string" THEN Inserted(called, args.text.v) ELSE <<>>
       IN /\ \A i, j \in 1..Len(list) : list[i] = list[j] => i = j
          /\ {list[i] : i \in 1..Len(list)} = {inserted[i] : i \in 1..Len(inserted)}
          /\ \A i, j \in 1..Len(list) :
               i < j => FirstIndex(inserted, list[i]) < FirstIndex(inserted, list[j])

C22_Witness ==
  /\ called = "extractExerciseRecommendations"
  /\ args.text = Str(<<"E","x","e","r","c","i","s","e","s",":","\n","-"," ","C","h","i","n"," ","t","u","c","k","s","\n","-"," ","W","a","l","l"," ","a","n","g","e","l","s","\n","-"," ","C","h","i","n"," ","t","u","c","k","s","\n","\n">>)
  /\ returned = Return(Arr(<<<<"C","h","i","n"," ","t","u","c","k","s">>, <<"W","a","l","l"," ","a","n","g","e","l","s">>>>))

\* C24: extractHydrationLevel returns 'low', 'normal', 'good' or undefined;
\* 'low' whenever the text contains "dehydrat", whatever the case, and 'good'
\* whenever it contains "well hydrated" and not "dehydrat", whatever the
\* hydration wording matched.
C24_HydrationForced ==
  Applied("extractHydrationLevel") =>
    LET lower == toLowerCase(args.text.v)
    IN /\ returned.value \in {Str(<<"l","o","w">>), Str(<<"n","o","r","m","a","l">>), Str(<<"g","o","o","d">>), Undefined}
       /\ includes(lower, <<"d","e","h","y","d","r","a","t">>) => returned.value = Str(<<"l","o","w">>)
       /\ (includes(lower, <<"w","e","l","l"," ","h","y","d","r","a","t","e","d">>) /\ ~includes(lower, <<"d","e","h","y","d","r","a","t">>))
            => returned.value = Str(<<"g","o","o","d">>)

\* C25: when the header section of a list extractor gave at least one
\* entry, the list returned is the entries of the section and no keyword
\* sentence is added.
C25_ScanOnlyWithoutSection ==
  (called \in ListExtractors /\ args.text.t = "string") =>
    LET section == sectionOf(args.text.v, HeaderPattern(called))
    IN section # <<>> =>
         {returned.value.v[i] : i \in 1..Len(returned.value.v)}
           = {section[j] : j \in 1..Len(section)}

\* the positions at which a line of the text starts
LineStarts(text) == {1} \cup {i \in 2..Len(text) : text[i - 1] = "\n"}

\* the line that starts at position i begins with one of the headers, in
\* either case, after white space or list and heading marks
BeginsWithHeader(text, i, headers) ==
  \E j \in i..Len(text) :
    /\ \A k \in i..(j - 1) : text[k] \in {" ", "\t", "-", "*", "#"}
    /\ \E n \in 1..Len(headers) :
         /\ j + Len(headers[n]) - 1 <= Len(text)
         /\ toLowerCase(SubSeq(text, j, j + Len(headers[n]) - 1)) = headers[n]

HasHeaderLine(text, headers) ==
  \E i \in LineStarts(text) : BeginsWithHeader(text, i, headers)

\* C26: parseAnalysisResults returns concerns (recommendations) only for a
\* text with a line that begins with one of the concerns (recommendations)
\* header synonyms: a synonym inside a prose line starts no section.
C26_SectionAtLineStart ==
  Applied("parseAnalysisResults") =>
    /\ returned.value.concerns # <<>> => HasHeaderLine(args.text.v, ConcernsHeaders)
    /\ returned.value.recommendations # <<>> =>
         HasHeaderLine(args.text.v, RecommendationsHeaders)

(***************************************************************************)
(* Properties of the order of the steps                                    *)
(***************************************************************************)
\* the collaborator calls and the handler's positions, in their order
CallOrder == <<"analyzeImage", "fetch", "storeAnalysisResults", "findNearbyProviders">>
CallRank(name) == CHOOSE n \in 1..Len(CallOrder) : CallOrder[n] = name
PcOrder ==
  <<"new", "read_body", "analyze", "fetching", "decoding", "analyzed", "base_insert",
    "specific_insert", "deleting", "stored", "lookup", "looked_up", "done">>
PcRank(label) == CHOOSE n \in 1..Len(PcOrder) : PcOrder[n] = label

\* each call is made at most once and in the fixed order; the vision model
\* is called only for a validated body, the store only after the vision call
\* has returned, the lookup only after the store has returned
C27_CallsInOrder ==
  \A r \in Clients :
    /\ \A i, j \in 1..Len(calls[r]) :
         i < j => CallRank(calls[r][i]) < CallRank(calls[r][j])
    /\ Called(r, "analyzeImage") =>
         /\ req[r].method = "POST"
         /\ req[r].body.kind = "json"
         /\ ~ImageMissing(r)
    /\ Called(r, "storeAnalysisResults") =>
         /\ Called(r, "analyzeImage")
         /\ AnalysisReturned(r)
         /\ PcRank(pc[r]) > PcRank("analyzed")
    /\ Called(r, "findNearbyProviders") =>
         /\ Called(r, "storeAnalysisResults")
         /\ StoreReturned(r)
         /\ PcRank(pc[r]) > PcRank("stored")
    /\ Len(responses[r]) > 0 => Answered(r)

\* a step moves its request forward, adds calls only at the end of the
\* list, and an answered request takes no further step
C27_StepsForward ==
  \A r \in Clients :
    /\ pc'[r] # pc[r] => PcRank(pc'[r]) > PcRank(pc[r])
    /\ Len(calls'[r]) >= Len(calls[r])
    /\ SubSeq(calls'[r], 1, Len(calls[r])) = calls[r]
    /\ Answered(r) => /\ Answered(r)'
                      /\ calls'[r] = calls[r]
                      /\ responses'[r] = responses[r]

\* C27: within one request the steps happen in the order validate, vision
\* call, parse and extract, persist, provider lookup, respond; the vision
\* model, storeAnalysisResults and findNearbyProviders are each called at
\* most once, persistence starts only after the vision call has returned,
\* the lookup only after persistence has returned, and no step is made
\* again after a failure.
C27_FixedOrder == []C27_CallsInOrder /\ [][C27_StepsForward]_vars

\* the store returned null after its compensating delete, the lookup
\* returned null, and the request was answered with each call made once
C27_Witness ==
  /\ Answered(1)
  /\ calls[1] = CallOrder
  /\ st[1].baseData # Null
  /\ BaseRowOf(1) = {}
  /\ st[1].result = Return(Null)
  /\ nearby[1] = Return(Null)

(***************************************************************************)
(* Referential integrity of the two tables                                 *)
(***************************************************************************)
\* each domain-specific row has the id of an existing base row, no two of
\* them share an id, and a call about to insert its domain-specific row has
\* inserted its base row
C28_RowsPaired ==
  /\ \A s \in specific_analyses : \E row \in health_analyses : row.id = s.id
  /\ \A s, t \in specific_analyses : s.id = t.id => s = t
  /\ \A r \in Clients :
       pc[r] = "specific_insert" => (BaseRowOf(r) # {} /\ SpecificRowOf(r) = {})

\* a domain-specific row is inserted by the call that inserted the base row
\* of its id, in its insert step, and a base row that is deleted has no
\* domain-specific row
C28_PairedSteps ==
  /\ \A s \in specific_analyses' \ specific_analyses :
       \E r \in Clients :
         /\ pc[r] = "specific_insert"
         /\ st[r].baseData = Uuid(s.id)
         /\ \E row \in health_analyses : row.id = s.id
  /\ \A row \in health_analyses \ health_analyses' :
       \A s \in specific_analyses : s.id # row.id
  /\ \A s \in specific_analyses : s \in specific_analyses'

\* C28: in every interleaving of concurrent requests each domain-specific
\* row has the id of an existing base row and there is at most one
\* domain-specific row per base row; the base insert of a call precedes its
\* domain-specific insert, and no base row that has a domain-specific row
\* is deleted.
C28_ReferentialIntegrity == []C28_RowsPaired /\ [][C28_PairedSteps]_vars

\* one call has stored both rows while another has deleted its base row
\* after a failed domain-specific insert, and both requests are answered
C28_Witness ==
  \E r, q \in Clients :
    /\ Answered(r) /\ Answered(q)
    /\ st[r].baseData # Null /\ BaseRowOf(r) = {}
    /\ BaseRowOf(q) # {} /\ SpecificRowOf(q) # {}

(***************************************************************************)
(* Every request is answered once                                          *)
(***************************************************************************)
\* a request has at most one response, and has one exactly when its handler
\* has ended
C30_AtMostOnce ==
  \A r \in Clients :
    /\ Len(responses[r]) <= 1
    /\ Answered(r) <=> Len(responses[r]) = 1

\* C30: every request that has arrived is eventually answered, given that
\* each awaited call eventually returns or fails, and no request is ever
\* answered twice.
C30_AnsweredOnce ==
  /\ []C30_AtMostOnce
  /\ (pc[1] # "new") ~> (Answered(1) /\ Len(responses[1]) = 1)

\* answered once at the end of the longest path: both rows stored, the id
\* returned, the provider query failed
C30_Witness ==
  /\ Answered(1)
  /\ Len(responses[1]) = 1
  /\ StoreReturnedId(1)
  /\ Called(1, "findNearbyProviders")
  /\ nearby[1] = Return(Null)

(***************************************************************************)
(* The stored record and the response                                      *)
(***************************************************************************)
\* the request was answered after storeAnalysisResults returned an id
PersistenceSucceeded(r) == SuccessResponse(r) /\ StoreReturnedId(r)

HandlerDomain ==
  ("dental-check" :> "dental") @@ ("skin-tracker" :> "skin") @@ ("posture-check" :> "posture")
    @@ ("nutri-snap" :> "nutrition") @@ ("poop-health" :> "stool")

\* a column agrees with a field of the response: the same value, or NULL or
\* false for a field that is undefined
AgreesWith(column, field) ==
  IF field = Undefined THEN column \in {Null, Bool(FALSE)} ELSE column = field

\* the base row of the request agrees with the response data d
BaseRowAgrees(r, d) ==
  /\ BaseRowOf(r) # {}
  /\ \A base \in BaseRowOf(r) :
       /\ base.raw_analysis = d.rawAnalysis
       /\ base.concerns = d.concerns
       /\ base.recommendations = d.recommendations
       /\ base.user_id = req[r].body.value.v.userId
       /\ base.analysis_type = HandlerDomain[req[r].handler]

\* the columns of the domain-specific row s, but for the vitamins, agree
\* with the domain fields of the response data d
DomainRowAgrees(h, s, d) ==
  CASE h = "dental-check" ->
         /\ AgreesWith(s.dental_issues, d.dentalIssues)
         /\ AgreesWith(s.oral_hygiene_score, d.oralHygieneScore)
         /\ AgreesWith(s.dentist_recommendation, d.dentistRecommended)
    [] h = "posture-check" ->
         /\ AgreesWith(s.posture_issues, d.postureIssues)
         /\ AgreesWith(s.posture_score, d.postureScore)
         /\ AgreesWith(s.exercise_recommendations, d.exerciseRecommendations)
    [] h = "nutri-snap" ->
         /\ AgreesWith(s.food_items, d.foodItems)
         /\ AgreesWith(s.calories, d.nutritionalInfo.v.calories)
         /\ AgreesWith(s.protein, d.nutritionalInfo.v.protein)
         /\ AgreesWith(s.carbs, d.nutritionalInfo.v.carbs)
         /\ AgreesWith(s.fat, d.nutritionalInfo.v.fat)
         /\ AgreesWith(s.fiber, d.nutritionalInfo.v.fiber)
         /\ AgreesWith(s.health_score, d.healthScore)
    [] h = "poop-health" ->
         /\ AgreesWith(s.stool_type, d.stoolType)
         /\ AgreesWith(s.abnormalities, d.abnormalities)
         /\ AgreesWith(s.hydration_indicator, d.hydrationIndicator)
         /\ AgreesWith(s.doctor_recommendation, d.doctorConsultationRecommended)

\* C29 as stated: when persistence succeeds the base row's raw_analysis,
\* concerns, recommendations, user_id and analysis_type are those of the
\* response, the request and the handler, and every column of the
\* domain-specific row, the vitamins included, equals the domain field of
\* the response, an undefined field being stored as NULL or false.
C29_RecordAgrees ==
  \A r \in Clients :
    PersistenceSucceeded(r) =>
      /\ BaseRowAgrees(r, LastResponse(r).data)
      /\ SpecificRowOf(r) # {}
      /\ \A s \in SpecificRowOf(r) :
           /\ DomainRowAgrees(req[r].handler, s, LastResponse(r).data)
           /\ req[r].handler = "nutri-snap" =>
                AgreesWith(s.vitamins, LastResponse(r).data.nutritionalInfo.v.vitamins)

\* C29, amended: the same, but the vitamins column holds the empty object
\* when the response has no vitamins.
C29_RecordAgreesButVitamins ==
  \A r \in Clients :
    PersistenceSucceeded(r) =>
      /\ BaseRowAgrees(r, LastResponse(r).data)
      /\ SpecificRowOf(r) # {}
      /\ \A s \in SpecificRowOf(r) :
           /\ DomainRowAgrees(req[r].handler, s, LastResponse(r).data)
           /\ req[r].handler = "nutri-snap" =>
                s.vitamins = IF LastResponse(r).data.nutritionalInfo.v.vitamins = Undefined
                             THEN Obj(<<>>)
                             ELSE LastResponse(r).data.nutritionalInfo.v.vitamins

\* a nutrition analysis stored with detected calories, health score and
\* vitamins and an undetected protein
C29_Witness ==
  /\ PersistenceSucceeded(1)
  /\ req[1].handler = "nutri-snap"
  /\ AnalysisText(1) = Str(TextDetailed)
  /\ LastResponse(1).data.nutritionalInfo.v.protein = Undefined
  /\ LastResponse(1).data.concerns = Arr(<<<<"S","u","g","a","r">>>>)
  /\ \E s \in SpecificRowOf(1) :
       /\ s.calories = Num(250)
       /\ s.health_score = Num(6)
       /\ s.protein = Null
       /\ s.vitamins = Obj(<<"i","r","o","n">> :> Num(20))
  /\ \E base \in BaseRowOf(1) : base.concerns = Arr(<<<<"S","u","g","a","r">>>>)

====
